---- MODULE Spec2Model ----
(***************************************************************************)
(* The request pipeline of the GitHub Reader MCP server: the middleware    *)
(* chain (GitHubAuthMiddleware, GitHubUsageTrackingMiddleware), the tool   *)
(* handlers of repo_reader.py, the API client execute_query and the JSON   *)
(* stats store of storage.py.                                              *)
(*                                                                         *)
(* Every invocation is an asyncio task.  An action of the model is the     *)
(* synchronous code a task runs between two awaits: the event loop runs    *)
(* one task at a time and switches tasks only at an await.                 *)
(***************************************************************************)
EXTENDS Integers, Sequences, FiniteSets, TLC

(***************************************************************************)
(* Bounds of the model.                                                    *)
(***************************************************************************)
\* number of invocations that can be in flight at the same time
NumSlots == 2
\* number of invocations started in one behaviour of the chain
MaxCalls == 2
\* number of invocations started in one behaviour of a handler taken alone
MaxHandlerCalls == 1

Slots == 1..NumSlots

(***************************************************************************)
(* config.py                                                               *)
(***************************************************************************)
\* the characters for which str.isspace() holds, as code points: tab, line
\* feed, vertical tab, form feed, carriage return, the separators 1C-1F,
\* space, NEL, no-break space and the Unicode spaces
Whitespace ==
    {9, 10, 11, 12, 13, 28, 29, 30, 31, 32, 133, 160, 5760} \cup (8192..8202)
        \cup {8232, 8233, 8239, 8287, 12288}

\* values of the environment variable GITHUB_TOKEN, as sequences of code
\* points: not set or empty; tab, vertical tab, no-break space, em space;
\* the letter g between a space and a line feed
Tokens == {<<>>, <<9, 11, 160, 8195>>, <<32, 103, 10>>}

RECURSIVE LStrip(_)
LStrip(s) == IF s # <<>> /\ Head(s) \in Whitespace THEN LStrip(Tail(s)) ELSE s

RECURSIVE RStrip(_)
RStrip(s) ==
    IF s # <<>> /\ s[Len(s)] \in Whitespace
    THEN RStrip(SubSeq(s, 1, Len(s) - 1)) ELSE s

\* str.strip()
Strip(s) == RStrip(LStrip(s))

\* GitHubConfig.is_configured
is_configured(api_key) == Len(Strip(api_key)) > 0

(***************************************************************************)
(* The tools register_repo_reader_tools registers, and their tags.  A name *)
(* is the sequence of its dot-separated parts.                             *)
(***************************************************************************)
GetRepositoryInfo == <<"get_repository_info">>
GetDirectoryContents == <<"get_directory_contents">>
GetFileContent == <<"get_file_content">>
GetBranches == <<"get_branches">>
GetReadme == <<"get_readme">>
GetCommits == <<"get_commits">>

ApiTools ==
    {GetRepositoryInfo, GetDirectoryContents, GetFileContent, GetBranches, GetReadme,
     GetCommits}

\* the tools of the server main.py builds
Tools == ApiTools

Tags(tool) == {"api", "github", "repo"}

\* tools whose handler takes an optional branch argument
BranchTools == {GetDirectoryContents, GetFileContent, GetReadme, GetCommits}

\* tools whose handler takes a path argument
PathTools == {GetDirectoryContents, GetFileContent}

readme_files ==
    <<"README.md", "README", "readme.md", "Readme.md", "README.rst", "README.txt">>

(***************************************************************************)
(* JSON values as json.loads gives them, and the operations of Python the  *)
(* code applies to them.  A dict is the sequence of its <<key, value>>     *)
(* members in insertion order, its keys distinct; an int is a whole        *)
(* number; a float is its repr.                                            *)
(***************************************************************************)
JNull == [t |-> "NoneType"]
JBool(b) == [t |-> "bool", b |-> b]
JInt(n) == [t |-> "int", n |-> n]
JFloat(r) == [t |-> "float", r |-> r]
JStr(s) == [t |-> "str", s |-> s]
JList(items) == [t |-> "list", items |-> items]
JDict(members) == [t |-> "dict", members |-> members]

EmptyDict == JDict(<<>>)
EmptyList == JList(<<>>)

\* type(x).__name__
TypeName(x) == x.t

\* bool(x)
Truthy(x) ==
    CASE x.t = "NoneType" -> FALSE
      [] x.t = "bool" -> x.b
      [] x.t = "int" -> x.n # 0
      [] x.t = "float" -> x.r \notin {"0.0", "-0.0"}
      [] x.t = "str" -> x.s # ""
      [] x.t = "list" -> x.items # <<>>
      [] OTHER -> x.members # <<>>

\* an expression has the value val, or raises the exception exc whose str()
\* is text (status and reason: the fields of a ClientResponseError)
Value(val) ==
    [kind |-> "returns", val |-> val, exc |-> "", status |-> 0, reason |-> "", text |-> ""]
Throw(exc, status, reason, text) ==
    [kind |-> "throws", val |-> JNull, exc |-> exc, status |-> status, reason |-> reason,
     text |-> text]

AttributeError(x, name) ==
    Throw("AttributeError", 0, "",
          "'" \o TypeName(x) \o "' object has no attribute '" \o name \o "'")
TypeError(text) == Throw("TypeError", 0, "", text)

\* the rest of a computation, run on the value of r unless r raised
Then(r, Rest(_)) == IF r.kind = "returns" THEN Rest(r.val) ELSE r

HasKey(d, key) == \E k \in DOMAIN d.members : d.members[k][1] = key
Lookup(d, key) == d.members[CHOOSE k \in DOMAIN d.members : d.members[k][1] = key][2]

\* x.get(key, default)
Get(x, key, default) ==
    IF x.t = "dict" THEN Value(IF HasKey(x, key) THEN Lookup(x, key) ELSE default)
    ELSE AttributeError(x, "get")

\* sub in s, for two strings
Contains(s, sub) ==
    \E k \in 1..(Len(s) - Len(sub) + 1) : SubSeq(s, k, k + Len(sub) - 1) = sub

\* key in x, for a string key
In(key, x) ==
    CASE x.t = "dict" -> Value(JBool(HasKey(x, key)))
      [] x.t = "list" -> Value(JBool(\E k \in DOMAIN x.items : x.items[k] = JStr(key)))
      [] x.t = "str" -> Value(JBool(key = "" \/ Contains(x.s, key)))
      [] OTHER -> TypeError("argument of type '" \o TypeName(x) \o "' is not iterable")

\* x[key], for a string key
Subscript(x, key) ==
    CASE x.t = "dict" ->
             IF HasKey(x, key) THEN Value(Lookup(x, key))
             ELSE Throw("KeyError", 0, "", "'" \o key \o "'")
      [] x.t = "list" -> TypeError("list indices must be integers or slices, not str")
      [] x.t = "str" -> TypeError("string indices must be integers, not 'str'")
      [] OTHER -> TypeError("'" \o TypeName(x) \o "' object is not subscriptable")

\* iter(x): the list of what a for loop over x goes through
Iter(x) ==
    CASE x.t = "list" -> Value(x)
      [] x.t = "dict" ->
             Value(JList([k \in 1..Len(x.members) |-> JStr(x.members[k][1])]))
      [] x.t = "str" -> Value(JList([k \in 1..Len(x.s) |-> JStr(SubSeq(x.s, k, k))]))
      [] OTHER -> TypeError("'" \o TypeName(x) \o "' object is not iterable")

\* len(x)
PyLen(x) ==
    CASE x.t = "list" -> Value(JInt(Len(x.items)))
      [] x.t = "dict" -> Value(JInt(Len(x.members)))
      [] x.t = "str" -> Value(JInt(Len(x.s)))
      [] OTHER -> TypeError("object of type '" \o TypeName(x) \o "' has no len()")

\* the items of a list or the members of a dict, joined by ", "
RECURSIVE Commas(_)
Commas(texts) ==
    IF texts = <<>> THEN ""
    ELSE IF Len(texts) = 1 THEN texts[1]
    ELSE texts[1] \o ", " \o Commas(Tail(texts))

\* repr(x); the strings have no quote, backslash or control character
RECURSIVE Repr(_)
Repr(x) ==
    CASE x.t = "NoneType" -> "None"
      [] x.t = "bool" -> IF x.b THEN "True" ELSE "False"
      [] x.t = "int" -> ToString(x.n)
      [] x.t = "float" -> x.r
      [] x.t = "str" -> "'" \o x.s \o "'"
      [] x.t = "list" -> "[" \o Commas([k \in 1..Len(x.items) |-> Repr(x.items[k])]) \o "]"
      [] OTHER ->
             "{" \o Commas([k \in 1..Len(x.members) |->
                              "'" \o x.members[k][1] \o "': " \o Repr(x.members[k][2])])
                 \o "}"

\* str(x), what an f-string puts for {x}
Str(x) == IF x.t = "str" THEN x.s ELSE Repr(x)

\* [e.get(key, default) for e in items], items a sequence
RECURSIVE GetEach(_, _, _)
GetEach(items, key, default) ==
    IF items = <<>> THEN Value(EmptyList)
    ELSE Then(Get(Head(items), key, default),
              LAMBDA first :
                  Then(GetEach(Tail(items), key, default),
                       LAMBDA rest : Value(JList(<<first>> \o rest.items))))

\* sep.join(items): every item has to be a str
RECURSIVE Joined(_, _)
Joined(sep, items) ==
    IF items = <<>> THEN ""
    ELSE IF Len(items) = 1 THEN items[1].s
    ELSE items[1].s \o sep \o Joined(sep, Tail(items))

Join(sep, items) ==
    IF \E k \in DOMAIN items : items[k].t # "str"
    THEN LET k == CHOOSE j \in DOMAIN items :
                      /\ items[j].t # "str"
                      /\ \A m \in 1..(j - 1) : items[m].t = "str"
         IN  TypeError("sequence item " \o ToString(k - 1) \o ": expected str instance, "
                           \o TypeName(items[k]) \o " found")
    ELSE Value(JStr(Joined(sep, items)))

(***************************************************************************)
(* storage.py: one JSON file per schema.                                   *)
(***************************************************************************)
\* Path.suffix: the name has a suffix when its last dot is neither its first
\* character nor its last one
has_suffix(parts) ==
    LET n == Len(parts)
    IN  n > 1 /\ parts[n] # "" /\ ~(n = 2 /\ parts[1] = "")

\* Path.with_suffix(".json") replaces the suffix of a name that has one, and
\* appends to a name that has none
with_suffix_json(parts) ==
    IF has_suffix(parts)
    THEN SubSeq(parts, 1, Len(parts) - 1) \o <<"json">>
    ELSE parts \o <<"json">>

\* get_database_path("middleware/usage/<tool_name>")
get_database_path(tool) == <<"database", "middleware", "usage">> \o with_suffix_json(tool)

\* schema keys with a dot in the name
DottedKeys == {<<"usage">>, <<"usage", "v1">>, <<"usage", "v2">>}

\* the files of the store: one per tool, the one of the name "client", and
\* those of the dotted keys
Paths == {get_database_path(t) : t \in Tools \cup {<<"client">>} \cup DottedKeys}

NoFile == [kind |-> "absent"]
CorruptFile == [kind |-> "corrupt"]

\* the keys of the statistics and of an entry of their error list, in the
\* order the dicts are built
StatsKeys ==
    <<"tool_name", "total_calls", "successful_calls", "failed_calls",
      "total_execution_time", "average_execution_time", "last_called", "errors">>
ErrorKeys == <<"timestamp", "error">>

\* json.dump of a dict: the members of the JSON object, in the order of keys
json_dump(d, keys) == [k \in 1..Len(keys) |-> <<keys[k], d[keys[k]]>>]

\* json.load of a JSON object: the dict of its members
json_load(members) ==
    [name \in {members[k][1] : k \in DOMAIN members} |->
        members[CHOOSE k \in DOMAIN members : members[k][1] = name][2]]

\* the statistics as json.load gives them back after json.dump
json_round_trip(data) ==
    LET top == json_load(json_dump(data, StatsKeys))
    IN  [top EXCEPT !.errors =
            [k \in 1..Len(data.errors) |-> json_load(json_dump(data.errors[k], ErrorKeys))]]

\* the file after a save that got to its end: {"timestamp": ts, "data": data},
\* kept as json.load reads it
JsonFile(ts, data) == [kind |-> "json", timestamp |-> ts, data |-> json_round_trip(data)]

\* what load_from_database does on a file: "empty" for {}, the wrapper, or raises
load_from_database(file) ==
    IF file.kind = "absent" THEN [kind |-> "empty"]
    ELSE IF file.kind = "corrupt" THEN [kind |-> "raises"]
    ELSE [kind |-> "loaded", timestamp |-> file.timestamp, data |-> file.data]

(***************************************************************************)
(* usage_middleware.py: the statistics of one tool.                        *)
(***************************************************************************)
MaxErrors == 10

(***************************************************************************)
(* Python floats are IEEE 754 doubles.  Execution times are whole ticks    *)
(* (a tick is a negative power of two of a second), so their sums are      *)
(* exact and kept as integers.  The average is a double: a 53-bit          *)
(* significand held in three parts, c1 the upper 17 bits (the leading bit  *)
(* set), c2 and c3 18 bits each; its value is                              *)
(*     (c1 * 2^36 + c2 * 2^18 + c3) * 2^(exp - 52) ticks.                  *)
(***************************************************************************)
HiLimit == 2^17
LoLimit == 2^18

Float(exp, c1, c2, c3) == [exp |-> exp, c1 |-> c1, c2 |-> c2, c3 |-> c3]

FloatZero == Float(0, 0, 0, 0)

\* the double next above x, x > 0
FloatSucc(x) ==
    IF x.c3 + 1 < LoLimit THEN [x EXCEPT !.c3 = @ + 1]
    ELSE IF x.c2 + 1 < LoLimit THEN [x EXCEPT !.c3 = 0, !.c2 = @ + 1]
    ELSE IF x.c1 + 1 < HiLimit THEN [x EXCEPT !.c3 = 0, !.c2 = 0, !.c1 = @ + 1]
    ELSE Float(x.exp + 1, HiLimit \div 2, 0, 0)

\* round to nearest, ties to even: x is the exact value cut off after 53 bits,
\* twiceRem / (2 * unit) the fraction of a unit in the last place cut off
RoundToEven(x, twiceRem, unit) ==
    IF twiceRem > unit \/ (twiceRem = unit /\ x.c3 % 2 = 1) THEN FloatSucc(x) ELSE x

\* a / b scaled by a power of two into [1, 2)
RECURSIVE Normalise(_, _, _)
Normalise(a, b, e) ==
    IF a >= 2 * b THEN Normalise(a, 2 * b, e + 1)
    ELSE IF a < b THEN Normalise(2 * a, b, e - 1)
    ELSE [a |-> a, b |-> b, exp |-> e]

\* the double nearest to a / b, for integers a > 0 and b > 0
Quotient(a, b) ==
    LET n == Normalise(a, b, 0)
        t1 == n.a * (HiLimit \div 2)
        t2 == (t1 % n.b) * LoLimit
        t3 == (t2 % n.b) * LoLimit
    IN  RoundToEven(Float(n.exp, t1 \div n.b, t2 \div n.b, t3 \div n.b),
                    2 * (t3 % n.b), n.b)

\* float(a) for an integer a >= 0
FromInt(a) == IF a = 0 THEN FloatZero ELSE Quotient(a, 1)

\* a slip: the average is taken with integer division
Divide_floor(a, b) == FromInt(a \div b)

\* total_execution_time / total_calls
Divide(a, b) == IF a = 0 THEN FloatZero ELSE Quotient(a, b)

\* the bits a product has beyond 17 in its upper part
RECURSIVE ExcessBits(_)
ExcessBits(p) == IF p >= HiLimit THEN 1 + ExcessBits(p \div 2) ELSE 0

\* x * n in doubles, for an integer n > 0
Multiply(x, n) ==
    IF x = FloatZero THEN FloatZero
    ELSE LET p3 == x.c3 * n
             p2 == x.c2 * n + p3 \div LoLimit
             p1 == x.c1 * n + p2 \div LoLimit
             d3 == p3 % LoLimit
             d2 == p2 % LoLimit
             m == 2^ExcessBits(p1)
             up == LoLimit \div m
         IN  RoundToEven(Float(x.exp + ExcessBits(p1), p1 \div m,
                               (p1 % m) * up + d2 \div m,
                               (d2 % m) * up + d3 \div m),
                         2 * (d3 % m), m)

\* the default of existing_data.get("data", {...})
NewStats(tool) ==
    [tool_name |-> tool, total_calls |-> 0, successful_calls |-> 0,
     failed_calls |-> 0, total_execution_time |-> 0,
     average_execution_time |-> FloatZero,
     last_called |-> 0, errors |-> <<>>]

\* errors[-n:]
LastN(s, n) == IF Len(s) > n THEN SubSeq(s, Len(s) - n + 1, Len(s)) ELSE s

\* stats["errors"] = stats["errors"][-10:]
TruncateErrors(errors) == LastN(errors, MaxErrors)

\* a slip: a failed call is not counted in failed_calls
CountFailedSkipped(stats, success) == stats.failed_calls

\* failed_calls after the update
CountFailed(stats, success) == IF success THEN stats.failed_calls ELSE stats.failed_calls + 1

\* the body of _track_usage between the load and the save.
\* error is str(e), "" when empty; ts is datetime.now()
UpdateStats(stats, execution_time, success, error, ts) ==
    LET total == stats.total_calls + 1
        time == stats.total_execution_time + execution_time
        errs == IF ~success /\ error # ""
                THEN TruncateErrors(Append(stats.errors, [timestamp |-> ts, error |-> error]))
                ELSE stats.errors
    IN  [tool_name |-> stats.tool_name,
         total_calls |-> total,
         successful_calls |-> IF success THEN stats.successful_calls + 1
                                         ELSE stats.successful_calls,
         failed_calls |-> CountFailed(stats, success),
         total_execution_time |-> time,
         average_execution_time |-> Divide(time, total),
         last_called |-> ts,
         errors |-> errs]

(***************************************************************************)
(* github_client.py: what the remote endpoint does with one POST, and what *)
(* execute_query makes of it.                                              *)
(***************************************************************************)
\* raise_for_status() raises ClientResponseError(status, message)
StatusResponse(status, reason) ==
    [t |-> "status", status |-> status, reason |-> reason, detail |-> "", body |-> JNull]

\* the connection fails: aiohttp.ClientError(detail)
ClientErrorResponse(detail) ==
    [t |-> "client_error", status |-> 0, reason |-> "", detail |-> detail, body |-> JNull]

\* the total timeout of the request expires: aiohttp's timer raises
\* asyncio.TimeoutError, whose str() is empty
TimeoutResponse ==
    [t |-> "timeout", status |-> 0, reason |-> "", detail |-> "", body |-> JNull]

\* HTTP 200 whose content type is not JSON: response.json() raises
\* ContentTypeError, a ClientResponseError with the status 200 and message
ContentTypeResponse(message) ==
    [t |-> "content_type", status |-> 200, reason |-> message, detail |-> "",
     body |-> JNull]

\* HTTP 200 with a body that is not JSON: json.loads raises
\* JSONDecodeError(detail)
NotJsonResponse(detail) ==
    [t |-> "not_json", status |-> 200, reason |-> "OK", detail |-> detail, body |-> JNull]

\* HTTP 200 with a JSON body: response.json() is body
JsonResponse(body) ==
    [t |-> "json", status |-> 200, reason |-> "OK", detail |-> "", body |-> body]

\* the body {"data": data}
DataBody(data) == JDict(<< <<"data", data>> >>)

\* the body {"data": data, "errors": errors}
ErrorsBody(data, errors) == JDict(<< <<"data", data>>, <<"errors", errors>> >>)

\* an entry {"message": message} of an errors list
GraphQLError(message) == JDict(<< <<"message", JStr(message)>> >>)

\* f"{e.status}": the status in decimal digits
StatusText(status) == ToString(status)

\* what execute_query hands to its caller
Raises(cls, msg) == [kind |-> "raises", cls |-> cls, msg |-> msg, data |-> JNull]
Returns(data) == [kind |-> "returns", cls |-> "", msg |-> "", data |-> data]

\* the except ClientResponseError branch
StatusMessage(status, reason) ==
    IF status = 401 THEN "Invalid or expired GitHub token"
    ELSE IF status = 403 THEN "Rate limit exceeded or forbidden resource"
    ELSE IF status = 404 THEN "Resource not found"
    ELSE "API request failed: " \o StatusText(status) \o " " \o reason

\* the classes an exception is an instance of
Bases(exc) ==
    CASE exc = "ContentTypeError" ->
             {"ContentTypeError", "ClientResponseError", "ClientError", "Exception"}
      [] exc = "ClientResponseError" -> {"ClientResponseError", "ClientError", "Exception"}
      [] exc = "ClientError" -> {"ClientError", "Exception"}
      [] OTHER -> {exc, "Exception"}

\* config.base_url
BaseUrl == "https://api.github.com/graphql"

\* "Bearer "
Bearer == <<66, 101, 97, 114, 101, 114, 32>>

\* GitHubConfig.headers
headers(api_key) ==
    [Authorization |-> Bearer \o api_key, ContentType |-> "application/json"]

\* payload = {"query": query}; if variables: payload["variables"] = variables
Payload(query, variables) ==
    JDict(<< <<"query", JStr(query)>> >>
          \o (IF Truthy(variables) THEN << <<"variables", variables>> >> ELSE <<>>))

\* what session.post is given: the URL, the headers, the payload; variables
\* is the argument of execute_query as it got it
Request(api_key, query, variables) ==
    [url |-> BaseUrl, headers |-> headers(api_key), payload |-> Payload(query, variables),
     variables |-> variables]

\* str() of a ClientResponseError
ResponseErrorText(status, message) ==
    StatusText(status) \o ", message='" \o message \o "', url='" \o BaseUrl \o "'"

\* a slip: the body is tested for a non-empty errors list
has_errors_entry_nonempty(data) ==
    Then(In("errors", data),
         LAMBDA found :
             IF found.b
             THEN Then(Subscript(data, "errors"), LAMBDA errors : Value(JBool(Truthy(errors))))
             ELSE Value(found))

\* "errors" in data
has_errors_entry(data) == In("errors", data)

\* error_messages and error_msg of the errors branch
ErrorMessage(data) ==
    Then(Subscript(data, "errors"),
         LAMBDA errors :
             Then(Iter(errors),
                  LAMBDA entries :
                      Then(GetEach(entries.items, "message", JStr("Unknown error")),
                           LAMBDA error_messages : Join("; ", error_messages.items))))

\* the try block: POST, raise_for_status(), response.json(), the errors check;
\* its value is what it returns
TryBody(resp) ==
    IF resp.t = "status"
    THEN Throw("ClientResponseError", resp.status, resp.reason,
               ResponseErrorText(resp.status, resp.reason))
    ELSE IF resp.t = "client_error" THEN Throw("ClientError", 0, "", resp.detail)
    ELSE IF resp.t = "timeout" THEN Throw("TimeoutError", 0, "", "")
    ELSE IF resp.t = "content_type"
    THEN Throw("ContentTypeError", resp.status, resp.reason,
               ResponseErrorText(resp.status, resp.reason))
    ELSE IF resp.t = "not_json" THEN Throw("JSONDecodeError", 0, "", resp.detail)
    ELSE Then(has_errors_entry(resp.body),
              LAMBDA found :
                  IF found.b
                  THEN Then(ErrorMessage(resp.body),
                            LAMBDA error_msg : Throw("GitHubAPIError", 0, "", error_msg.s))
                  ELSE Get(resp.body, "data", EmptyDict))

\* slips in the except clauses: the bare re-raise of GitHubAPIError is
\* missing, the catch-all is missing
ExceptClauses_no_reraise == <<"ClientResponseError", "ClientError", "Exception">>
ExceptClauses_no_catch_all == <<"ClientResponseError", "ClientError", "GitHubAPIError">>

\* the except clauses of execute_query, in the order they are written
ExceptClauses == <<"ClientResponseError", "ClientError", "GitHubAPIError", "Exception">>

\* the first clause that catches e, "" when none does
Caught(e, clauses) ==
    IF \E k \in DOMAIN clauses : clauses[k] \in Bases(e.exc)
    THEN clauses[CHOOSE k \in DOMAIN clauses :
                     /\ clauses[k] \in Bases(e.exc)
                     /\ \A j \in DOMAIN clauses : j < k => clauses[j] \notin Bases(e.exc)]
    ELSE ""

\* what the body of a clause raises for e; an exception no clause catches escapes
ClauseRaises(clause, e) ==
    IF clause = "ClientResponseError"
    THEN Raises("GitHubAPIError", StatusMessage(e.status, e.reason))
    ELSE IF clause = "ClientError" THEN Raises("GitHubAPIError", "Network error: " \o e.text)
    ELSE IF clause = "GitHubAPIError" THEN Raises("GitHubAPIError", e.text)
    ELSE IF clause = "Exception" THEN Raises("GitHubAPIError", "Unexpected error: " \o e.text)
    ELSE Raises(e.exc, e.text)

\* execute_query on the answer to its one POST
execute_query(resp) ==
    LET b == TryBody(resp)
    IN  IF b.kind = "returns" THEN Returns(b.val) ELSE ClauseRaises(Caught(b, ExceptClauses), b)

\* the name of a class as a traceback prints it: with its module, unless
\* that is builtins (asyncio.TimeoutError is the builtin TimeoutError)
QualifiedName(exc) ==
    CASE exc = "ClientResponseError" -> "aiohttp.client_exceptions.ClientResponseError"
      [] exc = "ContentTypeError" -> "aiohttp.client_exceptions.ContentTypeError"
      [] exc = "ClientError" -> "aiohttp.client_exceptions.ClientError"
      [] exc = "JSONDecodeError" -> "json.decoder.JSONDecodeError"
      [] exc = "GitHubAPIError" -> "src.utils.github_client.GitHubAPIError"
      [] OTHER -> exc

\* a record of the logger, as StructuredFormatter writes it (request_id and
\* execution_time_ms, a fresh uuid and a reading of the clock, left out);
\* fields is extra_fields, exception the traceback's last line, "" without
\* exc_info
LogRecord(level, message, fields, exception) ==
    [level |-> level, message |-> message, fields |-> fields, exception |-> exception]

\* a slip: the start record carries the headers of the request
StartRecord_with_headers(request) ==
    LogRecord("INFO", "GitHub API request started",
              [variables |-> request.variables, headers |-> request.headers], "")

\* logger.info("GitHub API request started", ...)
StartRecord(request) ==
    LogRecord("INFO", "GitHub API request started", [variables |-> request.variables], "")

\* the record the except clause that catches e writes; the bare re-raise of
\* GitHubAPIError writes none
ClauseRecord(clause, e) ==
    LET msg == ClauseRaises(clause, e).msg
        exception == IF e.text = "" THEN QualifiedName(e.exc)
                     ELSE QualifiedName(e.exc) \o ": " \o e.text
    IN  IF clause = "ClientResponseError"
        THEN <<LogRecord("ERROR", "GitHub API error: " \o msg,
                         [status_code |-> e.status, error_type |-> "ClientResponseError"],
                         exception)>>
        ELSE IF clause = "ClientError"
        THEN <<LogRecord("ERROR", "GitHub API network error: " \o msg,
                         [error_type |-> "ClientError"], exception)>>
        ELSE IF clause = "Exception"
        THEN <<LogRecord("ERROR", "GitHub API unexpected error: " \o msg,
                         [error_type |-> "UnexpectedError"], exception)>>
        ELSE <<>>

\* the record the try block writes: the error record before it raises
\* GitHubAPIError, the success record before data.get("data", {}), none when
\* an earlier statement raises
TryRecord(resp) ==
    IF resp.t # "json" THEN <<>>
    ELSE LET found == has_errors_entry(resp.body)
             error_msg == ErrorMessage(resp.body)
         IN  IF found.kind = "throws" THEN <<>>
             ELSE IF ~found.val.b
             THEN <<LogRecord("INFO", "GitHub API request successful", <<>>, "")>>
             ELSE IF error_msg.kind = "throws" THEN <<>>
             ELSE <<LogRecord("ERROR", "GitHub GraphQL error: " \o error_msg.val.s,
                              [error_type |-> "GraphQLError",
                               errors |-> Lookup(resp.body, "errors")], "")>>

\* the record the except clause writes that catches what the try block
\* raises on the answer, none when the try block returns
ExceptRecord(resp) ==
    LET b == TryBody(resp)
    IN  IF b.kind = "returns" THEN <<>> ELSE ClauseRecord(Caught(b, ExceptClauses), b)

\* the records a call of execute_query writes once its POST is answered
OutcomeRecords(resp) == TryRecord(resp) \o ExceptRecord(resp)

\* the records one call of execute_query writes, in order
LogRecords(request, resp) == <<StartRecord(request)>> \o OutcomeRecords(resp)

\* a slip: a failed attempt is followed by another one
should_retry_on_failure(q, attempts) == q.kind = "raises" /\ attempts < 2

\* execute_query has no loop around its POST: no answer leads to another attempt
should_retry(q, attempts) == FALSE

(***************************************************************************)
(* repo_reader.py: the handlers, from one await to the next.  A handler   *)
(* awaits ctx.info when it starts, execute_query once or more, and         *)
(* ctx.info or ctx.error before it returns or raises out of its try.  An   *)
(* outcome is what a stage hands to the stage around it.                   *)
(***************************************************************************)
Result(val) == [kind |-> "result", cls |-> "", msg |-> "", val |-> val]
Error(cls, msg) == [kind |-> "error", cls |-> cls, msg |-> msg, val |-> JNull]
Cancelled == [kind |-> "cancelled", cls |-> "CancelledError", msg |-> "", val |-> JNull]
NoOutcome == [kind |-> "none", cls |-> "", msg |-> "", val |-> JNull]

\* the arguments of a call of a tool; path, branch and limit have the
\* default of the signature where the tool has no such parameter
Arguments(owner, repo, path, branch, limit) ==
    [owner |-> owner, repo |-> repo, path |-> path, branch |-> branch, limit |-> limit]

NoArguments == Arguments("", "", "", JNull, 0)

PyMin(a, b) == IF b < a THEN b ELSE a

RepoNotFound(args) == "Repository " \o args.owner \o "/" \o args.repo \o " not found"
PathNotFound(args, branch) ==
    "Path '" \o args.path \o "' not found in " \o args.owner \o "/" \o args.repo
        \o " on branch " \o Str(branch)
FileNotFound(args, branch) ==
    "File '" \o args.path \o "' not found in " \o args.owner \o "/" \o args.repo
        \o " on branch " \o Str(branch)
BranchNotFound(args, branch) ==
    "Branch '" \o Str(branch) \o "' not found in " \o args.owner \o "/" \o args.repo
NoReadmeFound(args, branch) ==
    "No README file found in " \o args.owner \o "/" \o args.repo \o " on branch "
        \o Str(branch)

\* the prefix of the handler's except Exception branch
FailedPrefix(tool) ==
    IF tool = GetRepositoryInfo THEN "Failed to get repository info: "
    ELSE IF tool = GetDirectoryContents THEN "Failed to get directory contents: "
    ELSE IF tool = GetFileContent THEN "Failed to get file content: "
    ELSE IF tool = GetBranches THEN "Failed to get branches: "
    ELSE IF tool = GetCommits THEN "Failed to get commits: "
    ELSE "Failed to get README: "

\* the name of the GraphQL query a stage of a handler sends
QueryName(tool, stage) ==
    IF stage = "branch" THEN "GetDefaultBranch"
    ELSE IF tool = GetRepositoryInfo THEN "GetRepository"
    ELSE IF tool = GetDirectoryContents THEN "GetDirectoryContents"
    ELSE IF tool = GetFileContent THEN "GetFileContent"
    ELSE IF tool = GetBranches THEN "GetBranches"
    ELSE IF tool = GetCommits THEN "GetCommits"
    ELSE "GetReadme"

\* f"{branch}:{name}"
Expression(branch, name) == JStr(Str(branch) \o ":" \o name)

\* the variables a stage of a handler sends with its query
Variables(tool, stage, idx, args, branch) ==
    LET repository == << <<"owner", JStr(args.owner)>>, <<"name", JStr(args.repo)>> >>
    IN  IF stage = "branch" \/ tool = GetRepositoryInfo THEN JDict(repository)
        ELSE IF tool = GetDirectoryContents
        THEN JDict(repository \o
                   << <<"expression", IF args.path # "" THEN Expression(branch, args.path)
                                      ELSE Expression(branch, "")>> >>)
        ELSE IF tool = GetFileContent
        THEN JDict(repository \o << <<"expression", Expression(branch, args.path)>> >>)
        ELSE IF tool = GetBranches
        THEN JDict(repository \o << <<"limit", JInt(PyMin(args.limit, 100))>> >>)
        ELSE IF tool = GetCommits
        THEN JDict(repository \o
                   << <<"branch", branch>>, <<"limit", JInt(PyMin(args.limit, 50))>> >>)
        ELSE JDict(repository \o
                   << <<"expression", Expression(branch, readme_files[idx])>> >>)

\* a message a handler sends to its client: ctx.info(text) or ctx.error(text)
Note(level, text) == [level |-> level, text |-> text]
NoNote == Note("", "")

\* what a handler does next.  It leaves at once with what it raises:
Finish(out) ==
    [next |-> "finish", stage |-> "", idx |-> 0, branch |-> JNull, note |-> NoNote,
     out |-> out]
\* it awaits ctx.info or ctx.error and then returns or raises out:
Notify(note, out) ==
    [next |-> "notify", stage |-> "", idx |-> 0, branch |-> JNull, note |-> note,
     out |-> out]
\* it awaits execute_query once more:
CallNext(stage, idx, branch) ==
    [next |-> "call", stage |-> stage, idx |-> idx, branch |-> branch, note |-> NoNote,
     out |-> NoOutcome]

\* the ctx.info a handler awaits before anything else
StartNote(tool, args) ==
    LET repository == args.owner \o "/" \o args.repo
    IN  Note("info",
             IF tool = GetRepositoryInfo THEN "Fetching repository info for " \o repository
             ELSE IF tool = GetDirectoryContents
             THEN "Listing contents of " \o repository \o "/"
                      \o (IF args.path # "" THEN args.path ELSE "(root)")
             ELSE IF tool = GetFileContent
             THEN "Reading file " \o repository \o "/" \o args.path
             ELSE IF tool = GetBranches THEN "Listing branches for " \o repository
             ELSE IF tool = GetReadme THEN "Fetching README for " \o repository
             ELSE "Fetching commits for " \o repository)

\* the ctx.info a handler awaits before it returns response
SuccessNote(tool, response) ==
    LET count == Str(Lookup(response, "count"))
    IN  Note("info",
             IF tool = GetRepositoryInfo
             THEN "Repository info retrieved: " \o Str(Lookup(response, "stars"))
                      \o " stars, " \o Str(Lookup(response, "forks")) \o " forks"
             ELSE IF tool = GetDirectoryContents THEN "Found " \o count \o " entries"
             ELSE IF tool = GetFileContent
             THEN "File read: " \o Str(Lookup(response, "size")) \o " bytes"
             ELSE IF tool = GetBranches THEN "Found " \o count \o " branches"
             ELSE IF tool = GetReadme
             THEN "Found README: " \o Str(Lookup(response, "filename"))
             ELSE "Found " \o count \o " commits")

\* the round of the loop of get_readme goes on to the next name
Continue ==
    [kind |-> "continue", val |-> JNull, exc |-> "", status |-> 0, reason |-> "", text |-> ""]

ToolError(text) == Throw("ToolError", 0, "", text)

\* await execute_query(...): its value, or the GitHubAPIError it raises
QueryResult(q) == IF q.kind = "raises" THEN Throw(q.cls, 0, "", q.msg) ELSE Value(q.data)

\* repository = result.get("repository"); if not repository: raise ToolError
Repository(args, result) ==
    Then(Get(result, "repository", JNull),
         LAMBDA repository :
             IF Truthy(repository) THEN Value(repository)
             ELSE ToolError(RepoNotFound(args)))

\* the first await of execute_query of a handler: `if not branch`
FirstCall(tool, args) ==
    IF tool \in BranchTools /\ ~Truthy(args.branch) THEN CallNext("branch", 0, args.branch)
    ELSE IF tool = GetReadme THEN CallNext("readme", 1, args.branch)
    ELSE CallNext("main", 0, args.branch)

\* the default-branch lookup: the branch it finds, or what it raises
DefaultBranch(args, q) ==
    Then(QueryResult(q),
         LAMBDA branch_result :
             Then(Repository(args, branch_result),
                  LAMBDA repository :
                      Then(Get(repository, "defaultBranchRef", EmptyDict),
                           LAMBDA ref : Get(ref, "name", JStr("main")))))

\* the default-branch lookup is outside the handler's try: what it raises
\* leaves the handler as it is
AfterBranch(tool, args, q) ==
    LET branch == DefaultBranch(args, q)
    IN  IF branch.kind = "throws" THEN Finish(Error(branch.exc, branch.text))
        ELSE IF tool = GetReadme THEN CallNext("readme", 1, branch.val)
        ELSE CallNext("main", 0, branch.val)

\* x.get(key, {}).get(sub) if x.get(key) else None, for a dict x
GetNested(x, key, sub) ==
    IF Truthy(Get(x, key, JNull).val)
    THEN Then(Get(x, key, EmptyDict), LAMBDA inner : Get(inner, sub, JNull))
    ELSE Value(JNull)

\* [node["topic"]["name"] for node in nodes]
RECURSIVE TopicNames(_)
TopicNames(nodes) ==
    IF nodes = <<>> THEN Value(EmptyList)
    ELSE Then(Subscript(Head(nodes), "topic"),
              LAMBDA topic :
                  Then(Subscript(topic, "name"),
                       LAMBDA name :
                           Then(TopicNames(Tail(nodes)),
                                LAMBDA rest : Value(JList(<<name>> \o rest.items)))))

\* the try block of get_repository_info after execute_query
RepositoryInfo(args, result) ==
    Then(Repository(args, result),
      LAMBDA repository :
        Then(Get(repository, "name", JNull),
          LAMBDA name :
            Then(GetNested(repository, "primaryLanguage", "name"),
              LAMBDA language :
                Then(GetNested(repository, "licenseInfo", "spdxId"),
                  LAMBDA license :
                    Then(GetNested(repository, "defaultBranchRef", "name"),
                      LAMBDA default_branch :
                        Then(Then(Get(repository, "repositoryTopics", EmptyDict),
                                  LAMBDA repository_topics :
                                      Then(Get(repository_topics, "nodes", EmptyList),
                                           LAMBDA nodes :
                                               Then(Iter(nodes),
                                                    LAMBDA it : TopicNames(it.items)))),
                          LAMBDA topics :
                            Value(JDict(
                              << <<"success", JBool(TRUE)>>,
                                 <<"owner", JStr(args.owner)>>,
                                 <<"repo", JStr(args.repo)>>,
                                 <<"name", name>>,
                                 <<"description", Get(repository, "description", JNull).val>>,
                                 <<"stars", Get(repository, "stargazerCount", JInt(0)).val>>,
                                 <<"forks", Get(repository, "forkCount", JInt(0)).val>>,
                                 <<"language", language>>,
                                 <<"license", license>>,
                                 <<"created_at", Get(repository, "createdAt", JNull).val>>,
                                 <<"updated_at", Get(repository, "updatedAt", JNull).val>>,
                                 <<"is_private",
                                   Get(repository, "isPrivate", JBool(FALSE)).val>>,
                                 <<"default_branch", default_branch>>,
                                 <<"topics", topics>> >>))))))))

\* the loop over entries of get_directory_contents
RECURSIVE FormatEntries(_)
FormatEntries(entries) ==
    IF entries = <<>> THEN Value(EmptyList)
    ELSE Then(Get(Head(entries), "name", JNull),
              LAMBDA name :
                  LET entry == Head(entries)
                      formatted ==
                          JDict(<< <<"name", name>>,
                                   <<"type",
                                     IF Get(entry, "type", JNull).val = JStr("tree")
                                     THEN JStr("directory") ELSE JStr("file")>>,
                                   <<"path", Get(entry, "path", JNull).val>> >>)
                  IN  Then(FormatEntries(Tail(entries)),
                           LAMBDA rest : Value(JList(<<formatted>> \o rest.items))))

\* the try block of get_directory_contents after execute_query
DirectoryContents(args, branch, result) ==
    Then(Repository(args, result),
      LAMBDA repository :
        Then(Get(repository, "object", JNull),
          LAMBDA obj :
            IF ~Truthy(obj) THEN ToolError(PathNotFound(args, branch))
            ELSE Then(Get(obj, "entries", EmptyList),
                   LAMBDA entries :
                     Then(Iter(entries),
                       LAMBDA it :
                         Then(FormatEntries(it.items),
                           LAMBDA formatted_entries :
                             Value(JDict(
                               << <<"success", JBool(TRUE)>>,
                                  <<"owner", JStr(args.owner)>>,
                                  <<"repo", JStr(args.repo)>>,
                                  <<"path", JStr(IF args.path # "" THEN args.path ELSE "/")>>,
                                  <<"branch", branch>>,
                                  <<"entries", formatted_entries>>,
                                  <<"count", JInt(Len(formatted_entries.items))>> >>)))))))

\* the try block of get_file_content after execute_query
FileContent(args, branch, result) ==
    Then(Repository(args, result),
      LAMBDA repository :
        Then(Get(repository, "object", JNull),
          LAMBDA obj :
            IF ~Truthy(obj) THEN ToolError(FileNotFound(args, branch))
            ELSE Then(Get(obj, "isBinary", JBool(FALSE)),
                   LAMBDA is_binary :
                     LET content == IF ~Truthy(is_binary) THEN Get(obj, "text", JNull).val
                                    ELSE JNull
                     IN  Value(JDict(
                           << <<"success", JBool(TRUE)>>,
                              <<"owner", JStr(args.owner)>>,
                              <<"repo", JStr(args.repo)>>,
                              <<"path", JStr(args.path)>>,
                              <<"branch", branch>>,
                              <<"content", content>>,
                              <<"size", Get(obj, "byteSize", JInt(0)).val>>,
                              <<"is_binary", is_binary>> >>
                           \o (IF Truthy(is_binary)
                               THEN << <<"message",
                                         JStr("File is binary and cannot be displayed as text")>> >>
                               ELSE <<>>))))))

\* the loop over refs of get_branches
RECURSIVE FormatBranches(_)
FormatBranches(refs) ==
    IF refs = <<>> THEN Value(EmptyList)
    ELSE Then(Get(Head(refs), "target", EmptyDict),
           LAMBDA target :
             Then(Get(target, "oid", JNull),
               LAMBDA sha :
                 LET branch ==
                         JDict(<< <<"name", Get(Head(refs), "name", JNull).val>>,
                                  <<"last_commit",
                                    JDict(<< <<"sha", sha>>,
                                             <<"date", Get(target, "committedDate", JNull).val>>,
                                             <<"message",
                                               Get(target, "messageHeadline", JNull).val>> >>)>> >>)
                 IN  Then(FormatBranches(Tail(refs)),
                          LAMBDA rest : Value(JList(<<branch>> \o rest.items)))))

\* the try block of get_branches after execute_query
Branches(args, result) ==
    Then(Repository(args, result),
      LAMBDA repository :
        Then(Get(repository, "refs", EmptyDict),
          LAMBDA refs :
            Then(Get(refs, "nodes", EmptyList),
              LAMBDA nodes :
                Then(Iter(nodes),
                  LAMBDA it :
                    Then(FormatBranches(it.items),
                      LAMBDA branches :
                        Value(JDict(
                          << <<"success", JBool(TRUE)>>,
                             <<"owner", JStr(args.owner)>>,
                             <<"repo", JStr(args.repo)>>,
                             <<"branches", branches>>,
                             <<"count", JInt(Len(branches.items))>> >>)))))))

\* the loop over history of get_commits
RECURSIVE FormatCommits(_)
FormatCommits(history) ==
    IF history = <<>> THEN Value(EmptyList)
    ELSE Then(Get(Head(history), "author", EmptyDict),
           LAMBDA author :
             Then(Get(author, "name", JNull),
               LAMBDA name :
                 LET commit == Head(history)
                     formatted ==
                         JDict(<< <<"sha", Get(commit, "oid", JNull).val>>,
                                  <<"message_headline",
                                    Get(commit, "messageHeadline", JNull).val>>,
                                  <<"message", Get(commit, "message", JNull).val>>,
                                  <<"author",
                                    JDict(<< <<"name", name>>,
                                             <<"email", Get(author, "email", JNull).val>>,
                                             <<"date", Get(author, "date", JNull).val>> >>)>> >>)
                 IN  Then(FormatCommits(Tail(history)),
                          LAMBDA rest : Value(JList(<<formatted>> \o rest.items)))))

\* the try block of get_commits after execute_query
Commits(args, branch, result) ==
    Then(Repository(args, result),
      LAMBDA repository :
        Then(Get(repository, "ref", JNull),
          LAMBDA ref :
            IF ~Truthy(ref) THEN ToolError(BranchNotFound(args, branch))
            ELSE Then(Get(ref, "target", EmptyDict),
                   LAMBDA target :
                     Then(Get(target, "history", EmptyDict),
                       LAMBDA commit_history :
                         Then(Get(commit_history, "nodes", EmptyList),
                           LAMBDA nodes :
                             Then(Iter(nodes),
                               LAMBDA it :
                                 Then(FormatCommits(it.items),
                                   LAMBDA commits :
                                     Value(JDict(
                                       << <<"success", JBool(TRUE)>>,
                                          <<"owner", JStr(args.owner)>>,
                                          <<"repo", JStr(args.repo)>>,
                                          <<"branch", branch>>,
                                          <<"commits", commits>>,
                                          <<"count", JInt(Len(commits.items))>> >>)))))))))

\* obj and obj.get("text")
has_readme(obj) ==
    IF ~Truthy(obj) THEN Value(JBool(FALSE))
    ELSE Then(Get(obj, "text", JNull), LAMBDA text : Value(JBool(Truthy(text))))

\* one round of the loop of get_readme, for the name readme_files[idx]: the
\* response it returns, what it raises, or Continue
ReadmeRound(args, branch, idx, result) ==
    Then(Repository(args, result),
      LAMBDA repository :
        Then(Get(repository, "object", JNull),
          LAMBDA obj :
            Then(has_readme(obj),
              LAMBDA found :
                IF ~found.b THEN Continue
                ELSE LET content == Get(obj, "text", JNull).val
                     IN  Then(PyLen(content),
                           LAMBDA content_length :
                             Value(JDict(
                               << <<"success", JBool(TRUE)>>,
                                  <<"owner", JStr(args.owner)>>,
                                  <<"repo", JStr(args.repo)>>,
                                  <<"branch", branch>>,
                                  <<"filename", JStr(readme_files[idx])>>,
                                  <<"content", content>> >>))))))

\* the end of the try block of a handler and its except clauses: the
\* message the handler awaits and what it returns or raises after it
HandlerExcept(tool, r) ==
    IF r.kind = "returns" THEN Notify(SuccessNote(tool, r.val), Result(r.val))
    ELSE IF r.exc = "GitHubAPIError"
    THEN Notify(Note("error", "GitHub API error: " \o r.text), Error("ToolError", r.text))
    ELSE Notify(Note("error", "Unexpected error: " \o r.text),
                Error("ToolError", FailedPrefix(tool) \o r.text))

\* the try block of get_repository_info, get_directory_contents,
\* get_file_content, get_branches and get_commits
MainBody(tool, args, branch, q) ==
    Then(QueryResult(q),
         LAMBDA result :
             IF tool = GetRepositoryInfo THEN RepositoryInfo(args, result)
             ELSE IF tool = GetDirectoryContents THEN DirectoryContents(args, branch, result)
             ELSE IF tool = GetFileContent THEN FileContent(args, branch, result)
             ELSE IF tool = GetBranches THEN Branches(args, result)
             ELSE Commits(args, branch, result))

\* the handler after the answer to its main query
AfterMain(tool, args, branch, q) == HandlerExcept(tool, MainBody(tool, args, branch, q))

\* a slip: the loop of get_readme goes on to the next name after a failed call
AfterReadme_skip_failed(tool, args, branch, idx, q) ==
    LET round == Then(QueryResult(q), LAMBDA result : ReadmeRound(args, branch, idx, result))
    IN  IF round.kind \in {"continue", "throws"} /\ idx < Len(readme_files)
        THEN CallNext("readme", idx + 1, branch)
        ELSE IF round.kind = "continue"
        THEN HandlerExcept(tool, ToolError(NoReadmeFound(args, branch)))
        ELSE HandlerExcept(tool, round)

\* get_readme after the answer to the query for readme_files[idx]
AfterReadme(tool, args, branch, idx, q) ==
    LET round == Then(QueryResult(q), LAMBDA result : ReadmeRound(args, branch, idx, result))
    IN  IF round.kind = "continue" /\ idx < Len(readme_files)
        THEN CallNext("readme", idx + 1, branch)
        ELSE IF round.kind = "continue"
        THEN HandlerExcept(tool, ToolError(NoReadmeFound(args, branch)))
        ELSE HandlerExcept(tool, round)

\* the handler after execute_query has returned or raised q
HandlerAfter(tool, stage, idx, args, branch, q) ==
    IF stage = "branch" THEN AfterBranch(tool, args, q)
    ELSE IF stage = "readme" THEN AfterReadme(tool, args, branch, idx, q)
    ELSE AfterMain(tool, args, branch, q)

(***************************************************************************)
(* What the remote endpoint answers to the queries of the handlers.  A     *)
(* body holds the fields the query selects; a field of the schema that can *)
(* be null is null in some answer.                                         *)
(***************************************************************************)
\* the body {"data": {"repository": repository}}
RepositoryBody(repository) == DataBody(JDict(<< <<"repository", repository>> >>))

\* the repository object with one field
RepositoryWith(field, value) == RepositoryBody(JDict(<< <<field, value>> >>))

DevBranch == JDict(<< <<"name", JStr("dev")>> >>)

\* answers any query can get: no such repository, an errors list (empty, or
\* next to data, one entry without a message), HTTP 401 and 404, no connection
CommonAnswers ==
    { JsonResponse(RepositoryBody(JNull)),
      JsonResponse(ErrorsBody(JNull, EmptyList)),
      JsonResponse(ErrorsBody(JDict(<< <<"repository", JNull>> >>),
                              JList(<<GraphQLError("Field not found"), EmptyDict>>))),
      StatusResponse(401, "Unauthorized"),
      StatusResponse(404, "Not Found"),
      ClientErrorResponse("Cannot connect to host") }

\* GetDefaultBranch: a repository with a default branch, and an empty one,
\* which has none
DefaultBranchAnswers ==
    { JsonResponse(RepositoryWith("defaultBranchRef", DevBranch)),
      JsonResponse(RepositoryWith("defaultBranchRef", JNull)) }

FullRepository ==
    JDict(<< <<"name", JStr("r")>>,
             <<"description", JNull>>,
             <<"stargazerCount", JInt(3)>>,
             <<"forkCount", JInt(1)>>,
             <<"primaryLanguage", JDict(<< <<"name", JStr("Python")>> >>)>>,
             <<"licenseInfo", JNull>>,
             <<"createdAt", JStr("2024-01-01T00:00:00Z")>>,
             <<"updatedAt", JStr("2024-02-01T00:00:00Z")>>,
             <<"isPrivate", JBool(FALSE)>>,
             <<"defaultBranchRef", DevBranch>>,
             <<"repositoryTopics",
               JDict(<< <<"nodes",
                          JList(<< JDict(<< <<"topic",
                                              JDict(<< <<"name", JStr("mcp")>> >>)>> >>) >>)>> >>)>> >>)

\* the data of its answer
FullRepositoryData == JDict(<< <<"repository", FullRepository>> >>)

\* GetRepository
RepositoryAnswers == { JsonResponse(DataBody(FullRepositoryData)) }

TreeEntries ==
    JList(<< JDict(<< <<"name", JStr("src")>>, <<"type", JStr("tree")>>,
                      <<"path", JStr("src")>> >>),
             JDict(<< <<"name", JStr("a.py")>>, <<"type", JStr("blob")>>,
                      <<"path", JStr("a.py")>> >>) >>)

\* GetDirectoryContents: the expression names a tree, nothing, or a blob,
\* for which the selection `... on Tree` leaves an empty object
DirectoryAnswers ==
    { JsonResponse(RepositoryWith("object", JDict(<< <<"entries", TreeEntries>> >>))),
      JsonResponse(RepositoryWith("object", JNull)),
      JsonResponse(RepositoryWith("object", EmptyDict)) }

\* a blob as the selection of GetFileContent gives it
Blob(text, byteSize, isBinary) ==
    JDict(<< <<"text", text>>, <<"byteSize", JInt(byteSize)>>,
             <<"isBinary", JBool(isBinary)>> >>)

\* GetFileContent: a text file, a binary file, nothing, a tree
FileAnswers ==
    { JsonResponse(RepositoryWith("object", Blob(JStr("hi"), 2, FALSE))),
      JsonResponse(RepositoryWith("object", Blob(JNull, 3, TRUE))),
      JsonResponse(RepositoryWith("object", JNull)),
      JsonResponse(RepositoryWith("object", EmptyDict)) }

CommitTarget ==
    JDict(<< <<"oid", JStr("abc")>>, <<"committedDate", JStr("2024-02-01T00:00:00Z")>>,
             <<"messageHeadline", JStr("init")>> >>)

\* the refs connection with one branch
RefNodes(target) ==
    JDict(<< <<"nodes", JList(<< JDict(<< <<"name", JStr("dev")>>,
                                          <<"target", target>> >>) >>)>> >>)

\* GetBranches: one branch, one whose target is null, no connection
BranchesAnswers ==
    { JsonResponse(RepositoryWith("refs", RefNodes(CommitTarget))),
      JsonResponse(RepositoryWith("refs", RefNodes(JNull))),
      JsonResponse(RepositoryWith("refs", JNull)) }

\* the object of GetReadme with the text of a blob
TextBlob(text) == JDict(<< <<"text", text>> >>)

\* GetReadme: a file with text, an empty file, a binary file, nothing, a tree
ReadmeAnswers ==
    { JsonResponse(RepositoryWith("object", TextBlob(JStr("hi")))),
      JsonResponse(RepositoryWith("object", TextBlob(JStr("")))),
      JsonResponse(RepositoryWith("object", TextBlob(JNull))),
      JsonResponse(RepositoryWith("object", JNull)),
      JsonResponse(RepositoryWith("object", EmptyDict)) }

\* a commit of a history, with its author
Commit(author) ==
    JDict(<< <<"oid", JStr("abc")>>, <<"messageHeadline", JStr("init")>>,
             <<"message", JStr("init")>>, <<"author", author>> >>)

Author ==
    JDict(<< <<"name", JStr("a")>>, <<"email", JStr("a@b.c")>>,
             <<"date", JStr("2024-02-01T00:00:00Z")>> >>)

\* the ref of GetCommits with the history of its target
RefWithHistory(commits) ==
    JDict(<< <<"target",
               JDict(<< <<"history", JDict(<< <<"nodes", JList(commits)>> >>)>> >>)>> >>)

\* GetCommits: a history of one commit, no such branch, a ref whose target
\* is null
CommitsAnswers ==
    { JsonResponse(RepositoryWith("ref", RefWithHistory(<<Commit(Author)>>))),
      JsonResponse(RepositoryWith("ref", JNull)),
      JsonResponse(RepositoryWith("ref", JDict(<< <<"target", JNull>> >>))) }

\* the answers a query can get
Answers(query) ==
    CommonAnswers \cup
    ( CASE query = "GetDefaultBranch" -> DefaultBranchAnswers
        [] query = "GetRepository" -> RepositoryAnswers
        [] query = "GetDirectoryContents" -> DirectoryAnswers
        [] query = "GetFileContent" -> FileAnswers
        [] query = "GetBranches" -> BranchesAnswers
        [] query = "GetReadme" -> ReadmeAnswers
        [] OTHER -> CommitsAnswers )

\* the answers execute_query is run against on its own: those of the
\* queries, more errors lists and statuses, an expired timeout, and bodies
\* the try block cannot use
ClientResponses ==
    CommonAnswers \cup RepositoryAnswers \cup
    { JsonResponse(ErrorsBody(JNull, JList(<<GraphQLError("field X not found")>>))),
      JsonResponse(ErrorsBody(JNull, JList(<<GraphQLError("Field not found"),
                                             GraphQLError("Rate limited")>>))),
      JsonResponse(JDict(<< <<"errors", JNull>> >>)),
      JsonResponse(JDict(<< <<"errors", JList(<<JStr("x")>>)>> >>)),
      JsonResponse(JDict(<< <<"errors",
                              JList(<<JDict(<< <<"message", JNull>> >>)>>)>> >>)),
      JsonResponse(DataBody(JNull)),
      JsonResponse(EmptyDict),
      JsonResponse(EmptyList),
      JsonResponse(JNull),
      StatusResponse(403, "Forbidden"),
      StatusResponse(500, "Internal Server Error"),
      StatusResponse(502, "Bad Gateway"),
      ContentTypeResponse("Attempt to decode JSON with unexpected mimetype: text/html"),
      TimeoutResponse,
      NotJsonResponse("Expecting value: line 1 column 1 (char 0)") }

(***************************************************************************)
(* register_middleware.py and main.py: the chain, outermost stage first.   *)
(***************************************************************************)
\* a slip: the two add_middleware calls in the other order
MiddlewareOrderSwapped == <<"usage", "auth">>

\* register_all_middleware: GitHubAuthMiddleware first, then the usage tracker
MiddlewareOrder == <<"auth", "usage">>

ConfigMessage == "GitHub token not configured. Please set GITHUB_TOKEN in your .env file."

(***************************************************************************)
(* The context the framework hands to on_call_tool, by what the code reads *)
(* of it: context.source, with a name or without, and                      *)
(* context.fastmcp_context, with a server or without.  A server is the set *)
(* of the tools registered with it.                                        *)
(***************************************************************************)
\* a registered tool with its tags
Tool(name, tags) == [name |-> name, has_tags |-> TRUE, tags |-> tags]

\* a registered tool that has no attribute tags
PlainTool(name) == [name |-> name, has_tags |-> FALSE, tags |-> {}]

\* None
NoTool == [name |-> <<>>, has_tags |-> FALSE, tags |-> {}]

\* the server main.py builds
Registry == {Tool(t, Tags(t)) : t \in Tools}

\* server.get_tool(tool_name): the tool, None when no tool has the name
get_tool(server, name) ==
    IF \E t \in server : t.name = name THEN CHOOSE t \in server : t.name = name
    ELSE NoTool

\* a source with the attribute name
NamedSource(name) == [has_name |-> TRUE, name |-> name, str |-> name]

\* a source without it, and its str()
TextSource(text) == [has_name |-> FALSE, name |-> <<>>, str |-> <<text>>]

Context(source, has_server, server) ==
    [source |-> source, has_server |-> has_server, server |-> server]

NoContext == Context(TextSource(""), FALSE, {})

\* the context of a call of a tool of the server main.py builds: the source
\* has the name of the tool
ToolContext(tool) == Context(NamedSource(tool), TRUE, Registry)

\* the context of the same call where fastmcp_context has no attribute server
BareContext(tool) == Context(NamedSource(tool), FALSE, {})

\* the name str(context.source) gives for the source "client"
ClientSource == <<"client">>

\* the context of a call whose source is the string "client", which has no
\* attribute name
ClientContext == Context(TextSource("client"), TRUE, Registry)

\* the context a framework of the given kind hands to the chain for a call
\* of a tool
ContextOf(kind, tool) ==
    IF kind = "tool" THEN ToolContext(tool)
    ELSE IF kind = "bare" THEN BareContext(tool)
    ELSE ClientContext

\* context.source.name if hasattr(context.source, 'name') else str(context.source)
tool_name(context) ==
    IF context.source.has_name THEN context.source.name ELSE context.source.str

\* a slip: the gate asks for the token whatever the tags of the tool
requires_auth_any_tool(tool) == TRUE

\* tool and hasattr(tool, 'tags') and "api" in tool.tags
requires_auth(tool) == tool # NoTool /\ tool.has_tags /\ "api" \in tool.tags

\* the gate raises ToolError: the context has a server, the tool the server
\* has under the name requires the token, and the token is not configured
gate_raises(context, api_key) ==
    /\ context.has_server
    /\ requires_auth(get_tool(context.server, tool_name(context)))
    /\ ~is_configured(api_key)

(***************************************************************************)
(* _track_usage: load, update, save, all inside try / except Exception.    *)
(* It is a plain function without an await, so it runs in one piece.  The  *)
(* store can fail it: the load raises (an I/O error, or a file that is not *)
(* JSON), open() raises before it truncates the file, or json.dump raises  *)
(* after open() has truncated it.                                          *)
(***************************************************************************)
Faults == {"none", "load", "save_open", "save_partial"}

\* open(file_path, "w") leaves no content in the file
file_after_open(file) == NoFile

\* what save_to_database leaves on disk
save_to_database(file, ts, data, fault) ==
    IF fault = "save_open" THEN file
    ELSE IF fault = "save_partial" THEN CorruptFile
    ELSE IF file_after_open(file) = NoFile THEN JsonFile(ts, data)
    ELSE CorruptFile

\* a slip: the statistics are loaded before the handler is awaited
file_to_update_stale(current, atStart) == atStart

\* the file _track_usage loads: the one on disk when it runs
file_to_update(current, atStart) == current

\* the file after _track_usage, and whether tracking got to the end of its try
track_usage(tool, current, atStart, execution_time, success, error, ts, fault) ==
    LET loaded == load_from_database(file_to_update(current, atStart)) IN
    IF fault = "load" \/ loaded.kind = "raises"
    THEN [status |-> "failed", file |-> current]
    ELSE LET stats == IF loaded.kind = "empty" THEN NewStats(tool) ELSE loaded.data
             new == UpdateStats(stats, execution_time, success, error, ts)
         IN  [status |-> IF fault = "none" THEN "ok" ELSE "failed",
              file |-> save_to_database(current, ts, new, fault)]

\* a slip: only the success path calls _track_usage
tracked_kinds_success_only == {"result"}

\* on_call_tool tracks in its try and in its except Exception
tracked_kinds == {"result", "error"}

\* a slip: an exception of _track_usage escapes and replaces the outcome
usage_outcome_propagating(out, status) ==
    IF status = "failed" THEN Error("TrackingError", "Failed to track usage") ELSE out

\* a slip: the except branch raises a new error made from the caught one
usage_outcome_wrapped(out, status) ==
    IF out.kind = "error" THEN Error("ToolError", "Tool failed: " \o out.msg) ELSE out

\* return result / raise: what on_call_tool hands on after _track_usage
usage_outcome(out, status) == out

(***************************************************************************)
(***************************************************************************)
(* The state.                                                              *)
(***************************************************************************)
VARIABLES
    env,        \* what the server runs against: the calls made, remote answers
    token,      \* config.api_key, read once at start-up
    store,      \* the files of the database directory, by path
    now,        \* the clock datetime.now() reads, in tracking steps
    calls,      \* invocations started so far
    inv,        \* the invocation of each slot
    store0,     \* history: the store at start-up
    streak,     \* history: per path, the failed invocations since the last success
    saved,      \* history: per path, the tracking steps that got to the end
    log         \* what one component run on its own has done or written, in order

vars == <<env, token, store, now, calls, inv, store0, streak, saved, log>>

\* no request_id
NoId == <<>>

\* str(uuid.uuid4()): the k-th identifier made during the call-th invocation
Uuid(call, k) == <<call, k>>

\* getattr(context, 'request_id', default)
GetRequestId(context_id, default) == IF context_id # NoId THEN context_id ELSE default

NoRequest == Request(<<>>, "", JNull)
NoResponse == [t |-> "none", status |-> 0, reason |-> "", detail |-> "", body |-> JNull]
NoQuery == [kind |-> "none", cls |-> "", msg |-> "", data |-> JNull]

IdleInvocation ==
    [pc |-> "idle", tool |-> <<>>, args |-> NoArguments, context |-> NoContext,
     branch |-> JNull, depth |-> 0,
     call |-> 0, context_id |-> NoId, gate_id |-> NoId, usage_id |-> NoId,
     handler_id |-> NoId, query_ids |-> {}, asked |-> <<>>,
     events |-> <<>>, usage_entered |-> FALSE, stage |-> "", idx |-> 0,
     request |-> NoRequest, resp |-> NoResponse, query |-> NoQuery,
     notes |-> <<>>, pending |-> NoOutcome,
     queries |-> 0, attempts |-> 0, httpCount |-> 0, raised |-> FALSE,
     atRaise |-> 0, raisedMsg |-> "", next_out |-> NoOutcome,
     outcome |-> NoOutcome, track |-> "none", delta |-> 0, atStart |-> NoFile,
     peers |-> {}]

\* the tool whose statistics earlier runs of the server may have left behind
PriorTool == GetRepositoryInfo
PriorError == "Resource not found"
PriorCounts == {0, MaxErrors}

\* the statistics after n failed calls of an earlier run, as _track_usage builds them
RECURSIVE PriorStats(_, _)
PriorStats(tool, n) ==
    IF n = 0 THEN NewStats(tool)
    ELSE UpdateStats(PriorStats(tool, n - 1), 1, FALSE, PriorError, n)

RECURSIVE PriorStreak(_)
PriorStreak(n) ==
    IF n = 0 THEN <<>>
    ELSE Append(PriorStreak(n - 1), [timestamp |-> n, error |-> PriorError, stored |-> TRUE])

\* the tools whose handler takes a limit argument
LimitTools == {GetBranches, GetCommits}

\* the arguments the calls of a tool are made with in e
ArgumentsOf(tool, e) ==
    { Arguments("o", "r", path, branch, limit) :
          path \in (IF tool \in PathTools THEN e.paths ELSE {""}),
          branch \in (IF tool \in BranchTools THEN e.branches ELSE {JNull}),
          limit \in (IF tool \in LimitTools THEN e.limits ELSE {0}) }

\* contexts: the kinds of context the framework hands to the chain;
\* invocations: the number of invocations; pending: the number of calls of
\* execute_query made on its own that can be pending at a time
Environment(tools, branches, paths, limits, responses, times, slots, faults, contexts,
            invocations, pending) ==
    [tools |-> tools, branches |-> branches, paths |-> paths, limits |-> limits,
     responses |-> responses, times |-> times, slots |-> slots, faults |-> faults,
     contexts |-> contexts, invocations |-> invocations, pending |-> pending]

\* the pipeline under concurrent invocations of a tool, with a store that
\* can fail, under a framework whose contexts have a source with the
\* name of the tool and the attribute server
PipelineEnv ==
    Environment({GetRepositoryInfo}, {JNull}, {""}, {20},
                { JsonResponse(RepositoryBody(FullRepository)),
                  StatusResponse(404, "Not Found") },
                {1}, Slots, Faults, {"tool"}, MaxCalls, 0)

\* invocations of one tool, one at a time, under a framework whose contexts
\* have no attribute server, with a store that does not fail
BarePipelineEnv ==
    Environment({GetRepositoryInfo}, {JNull}, {""}, {20},
                { JsonResponse(RepositoryBody(FullRepository)),
                  JsonResponse(ErrorsBody(JNull, EmptyList)),
                  StatusResponse(401, "Unauthorized") },
                {1}, {1}, {"none"}, {"bare"}, MaxCalls, 0)

\* invocations of two tools, one at a time, under a framework whose contexts
\* have the source "client", with a store that does not fail
ClientSourceEnv ==
    Environment({GetRepositoryInfo, GetBranches}, {JNull}, {""}, {20},
                { JsonResponse(RepositoryBody(FullRepository)),
                  JsonResponse(RepositoryWith("refs", RefNodes(CommitTarget))) },
                {1}, {1}, {"none"}, {"client"}, MaxCalls, 0)

\* the answers of the queries to a valid token; of those that make
\* get_readme go on to its next name, the ones where the name is absent or a
\* tree
HandlerAnswers ==
    (CommonAnswers \ {StatusResponse(401, "Unauthorized")}) \cup DefaultBranchAnswers \cup RepositoryAnswers \cup DirectoryAnswers
        \cup FileAnswers \cup BranchesAnswers \cup CommitsAnswers
        \cup { JsonResponse(RepositoryWith("object", TextBlob(JStr("hi")))) }

\* the handler of a tool one invocation at a time, against the answers of
\* its queries, with a store that does not fail; the branch is left out or
\* given, the limit within the cap or above it
HandlerEnv(tool) ==
    Environment({tool}, {JNull, JStr("main")}, {"p"}, {20, 150}, HandlerAnswers, {1},
                {1}, {"none"}, {"tool"}, MaxHandlerCalls, 0)

HandlerEnvs == {HandlerEnv(tool) : tool \in Tools}

InitState ==
    /\ token \in Tokens
    /\ \E n \in PriorCounts :
         /\ store = [p \in Paths |->
                       IF n > 0 /\ p = get_database_path(PriorTool)
                       THEN JsonFile(n, PriorStats(PriorTool, n)) ELSE NoFile]
         /\ streak = [p \in Paths |->
                       IF p = get_database_path(PriorTool) THEN PriorStreak(n) ELSE <<>>]
         /\ now = n
    /\ store0 = store
    /\ saved = [p \in Paths |-> 0]
    /\ calls = 0
    /\ inv = [i \in Slots |-> IdleInvocation]
    /\ log = <<>>

Init == env \in {PipelineEnv, BarePipelineEnv, ClientSourceEnv} /\ InitState

\* the gate lets the handlers run: the token is configured
InitHandlers == env \in HandlerEnvs /\ InitState /\ is_configured(token)

\* get_readme one invocation at a time, on a given branch or the default
\* one, where a candidate name is a file with text, an empty file, or absent
ReadmeEnv ==
    Environment({GetReadme}, {JNull, JStr("main")}, {""}, {0},
                { JsonResponse(RepositoryWith("defaultBranchRef", DevBranch)),
                  JsonResponse(RepositoryWith("object", TextBlob(JStr("hi")))),
                  JsonResponse(RepositoryWith("object", TextBlob(JStr("")))),
                  JsonResponse(RepositoryWith("object", JNull)),
                  StatusResponse(404, "Not Found") },
                {1}, {1}, {"none"}, {"tool"}, MaxCalls, 0)

InitReadme == env = ReadmeEnv /\ InitState /\ is_configured(token)

\* total_calls of the record a file holds, 0 when it holds none
StoredCalls(file) == IF file.kind = "json" THEN file.data.total_calls ELSE 0

InFlight(r) == r.pc \notin {"idle", "done"}

\* the invocations inside the usage interceptor: entered, not yet tracked
InUsage(r) == InFlight(r) /\ r.usage_entered

\* the file of the statistics of an invocation
RecordPath(r) == get_database_path(tool_name(r.context))

(***************************************************************************)
(* The outcome out of the stage invocation i is in travels back through    *)
(* the chain.  Nothing awaits on the way: the usage interceptor, when the  *)
(* invocation has entered it, tracks and hands the outcome on; the gate    *)
(* hands on what it gets.  r is the invocation's record as the step that   *)
(* produced the outcome leaves it.                                         *)
(***************************************************************************)
Complete(i, r, out) ==
    LET p == RecordPath(r) IN
    IF r.usage_entered /\ out.kind \in tracked_kinds
    THEN \E e \in env.times, fault \in env.faults :
           LET ts == now + 1
               success == out.kind = "result"
               t == track_usage(tool_name(r.context), store[p], r.atStart, e, success,
                                out.msg, ts, fault)
           IN  /\ store' = [store EXCEPT ![p] = t.file]
               /\ saved' = [saved EXCEPT ![p] = IF t.status = "ok" THEN @ + 1 ELSE @]
               /\ now' = ts
               /\ streak' = [streak EXCEPT ![p] =
                               IF success THEN <<>>
                               ELSE Append(@, [timestamp |-> ts, error |-> out.msg,
                                               stored |-> t.status = "ok"])]
               /\ inv' = [inv EXCEPT ![i] =
                            [r EXCEPT !.pc = "done", !.track = t.status,
                                      !.delta = StoredCalls(t.file) - StoredCalls(store[p]),
                                      !.next_out = out,
                                      !.outcome = usage_outcome(out, t.status)]]
    ELSE /\ inv' = [inv EXCEPT ![i] =
                      [r EXCEPT !.pc = "done", !.outcome = out,
                                !.next_out = IF r.usage_entered THEN out ELSE @]]
         /\ UNCHANGED <<store, now, streak, saved>>

(***************************************************************************)
(* A client calls a tool: the invocation enters the chain.                 *)
(***************************************************************************)
Invoke(i) ==
    /\ i \in env.slots
    /\ inv[i].pc \in {"idle", "done"}
    /\ \A j \in Slots : j < i => inv[j].pc # "idle"
    /\ calls < env.invocations
    /\ \E tool \in env.tools, kind \in env.contexts :
         \E args \in ArgumentsOf(tool, env) :
           inv' = [j \in Slots |->
                     IF j = i
                     THEN [IdleInvocation EXCEPT !.pc = "enter", !.tool = tool,
                                                 !.args = args,
                                                 !.context = ContextOf(kind, tool),
                                                 !.depth = 1, !.call = calls + 1]
                     ELSE [inv[j] EXCEPT !.peers = @ \ {i}]]
    /\ calls' = calls + 1
    /\ UNCHANGED <<env, token, store, now, store0, streak, saved, log>>

(***************************************************************************)
(* GitHubAuthMiddleware.on_call_tool: raise ToolError, or call_next.       *)
(***************************************************************************)
AuthGate(i) ==
    LET r == [inv[i] EXCEPT
                 !.gate_id = GetRequestId(inv[i].context_id, Uuid(inv[i].call, 1))]
    IN
    /\ r.pc = "enter"
    /\ r.depth <= Len(MiddlewareOrder)
    /\ MiddlewareOrder[r.depth] = "auth"
    /\ IF gate_raises(r.context, token)
       THEN Complete(i, [r EXCEPT !.events = Append(@, "auth_deny")],
                     Error("ToolError", ConfigMessage))
       ELSE /\ inv' = [inv EXCEPT ![i] =
                         [r EXCEPT !.depth = @ + 1, !.events = Append(@, "auth_permit")]]
            /\ UNCHANGED <<store, now, streak, saved>>
    /\ UNCHANGED <<env, token, calls, store0, log>>

(***************************************************************************)
(* GitHubUsageTrackingMiddleware.on_call_tool up to await call_next.       *)
(***************************************************************************)
UsageStart(i) ==
    LET r == inv[i]
        others == {j \in Slots \ {i} : InUsage(inv[j])}
    IN
    /\ r.pc = "enter"
    /\ r.depth <= Len(MiddlewareOrder)
    /\ MiddlewareOrder[r.depth] = "usage"
    /\ inv' = [j \in Slots |->
                 IF j = i
                 THEN [r EXCEPT !.depth = @ + 1, !.usage_entered = TRUE,
                                !.usage_id = Uuid(r.call, 2),
                                \* if hasattr(context, 'request_id')
                                !.context_id = IF @ # NoId THEN Uuid(r.call, 2) ELSE @,
                                !.events = Append(@, "usage_start"),
                                !.atStart = store[RecordPath(r)],
                                !.peers = others]
                 ELSE IF j \in others THEN [inv[j] EXCEPT !.peers = @ \cup {i}]
                 ELSE inv[j]]
    /\ UNCHANGED <<env, token, store, now, calls, store0, streak, saved, log>>

\* invocation r with its handler at the await of the execute_query that step
\* c asks for: the POST is sent
Posting(r, c) ==
    [r EXCEPT !.pc = "http", !.stage = c.stage, !.idx = c.idx, !.branch = c.branch,
              !.request = Request(token, QueryName(r.tool, c.stage),
                                  Variables(r.tool, c.stage, c.idx, r.args, c.branch)),
              !.query_ids = @ \cup {r.handler_id},
              !.queries = @ + 1, !.attempts = 1, !.httpCount = @ + 1]

(***************************************************************************)
(* The handler starts: it runs to its first await, of ctx.info.            *)
(***************************************************************************)
HandlerStart(i) ==
    LET r == inv[i] IN
    /\ r.pc = "enter"
    /\ r.depth = Len(MiddlewareOrder) + 1
    /\ inv' = [inv EXCEPT ![i] =
                 [r EXCEPT !.pc = "info", !.events = Append(@, "handler"),
                           !.handler_id = Uuid(r.call, 3),
                           !.notes = Append(@, StartNote(r.tool, r.args))]]
    /\ UNCHANGED <<env, token, store, now, calls, store0, streak, saved, log>>

(***************************************************************************)
(* ctx.info has returned: the handler runs to its first execute_query,     *)
(* which sends its POST and awaits the answer.                             *)
(***************************************************************************)
HandlerPost(i) ==
    /\ inv[i].pc = "info"
    /\ inv' = [inv EXCEPT ![i] = Posting(@, FirstCall(@.tool, @.args))]
    /\ UNCHANGED <<env, token, store, now, calls, store0, streak, saved, log>>

(***************************************************************************)
(* The answer to the POST of execute_query arrives: execute_query runs on  *)
(* to the end of its two `async with` blocks, by its return or by what is  *)
(* raised inside them, and awaits their exits.  query is what it is about  *)
(* to hand to the handler.  The await of response.json() is not a step of  *)
(* its own: nothing is written between the answer and the body.            *)
(***************************************************************************)
HttpRespond(i) ==
    /\ inv[i].pc = "http"
    /\ \E resp \in env.responses \cap Answers(QueryName(inv[i].tool, inv[i].stage)) :
         inv' = [inv EXCEPT ![i] = [@ EXCEPT !.pc = "closing", !.resp = resp,
                                             !.query = execute_query(resp)]]
    /\ UNCHANGED <<env, token, store, now, calls, store0, streak, saved, log>>

\* history of the invocation r once its call of execute_query is over: the
\* first call that raised, if any, and the names get_readme has asked for,
\* with the answers
Answered(r) ==
    LET r0 == IF r.query.kind = "raises" /\ ~r.raised
              THEN [r EXCEPT !.raised = TRUE, !.atRaise = r.httpCount,
                             !.raisedMsg = r.query.msg]
              ELSE r
    IN  IF r0.stage = "readme"
        THEN [r0 EXCEPT !.asked = Append(@, [name |-> readme_files[r0.idx], q |-> r0.query])]
        ELSE r0

(***************************************************************************)
(* The session of execute_query is closed: execute_query returns or raises *)
(* and the handler runs on to its next await, an execute_query or the      *)
(* ctx.info or ctx.error before its end, or leaves with what it raises.    *)
(***************************************************************************)
HttpClosed(i) ==
    LET r == Answered(inv[i])
        h == HandlerAfter(r.tool, r.stage, r.idx, r.args, r.branch, r.query)
    IN
    /\ r.pc = "closing"
    /\ IF should_retry(r.query, r.attempts)
       THEN /\ inv' = [inv EXCEPT ![i] =
                         [@ EXCEPT !.pc = "http", !.attempts = @ + 1, !.httpCount = @ + 1]]
            /\ UNCHANGED <<store, now, streak, saved>>
       ELSE IF h.next = "call"
       THEN /\ inv' = [inv EXCEPT ![i] = Posting(r, h)]
            /\ UNCHANGED <<store, now, streak, saved>>
       ELSE IF h.next = "notify"
       THEN /\ inv' = [inv EXCEPT ![i] =
                         [r EXCEPT !.pc = "notify", !.notes = Append(@, h.note),
                                   !.pending = h.out]]
            /\ UNCHANGED <<store, now, streak, saved>>
       ELSE Complete(i, r, h.out)
    /\ UNCHANGED <<env, token, calls, store0, log>>

(***************************************************************************)
(* ctx.info or ctx.error has returned: the handler returns its response or *)
(* raises its ToolError.                                                   *)
(***************************************************************************)
HandlerEnd(i) ==
    /\ inv[i].pc = "notify"
    /\ Complete(i, inv[i], inv[i].pending)
    /\ UNCHANGED <<env, token, calls, store0, log>>

\* the task of the invocation is suspended: at an await of call_next inside
\* the chain, of ctx.info or ctx.error, of the answer to a POST or of the
\* exits of execute_query
Suspended(r) ==
    \/ r.pc \in {"info", "http", "closing", "notify"}
    \/ r.pc = "enter" /\ r.depth > 1

(***************************************************************************)
(* The task is cancelled at the await it is suspended at: CancelledError   *)
(* is a BaseException, which no except Exception clause of execute_query,  *)
(* of the handlers or of the chain catches.                                *)
(***************************************************************************)
Cancel(i) ==
    /\ Suspended(inv[i])
    /\ Complete(i, inv[i], Cancelled)
    /\ UNCHANGED <<env, token, calls, store0, log>>

Next ==
    \E i \in Slots :
        \/ Invoke(i)
        \/ AuthGate(i)
        \/ UsageStart(i)
        \/ HandlerStart(i)
        \/ HandlerPost(i)
        \/ HttpRespond(i)
        \/ HttpClosed(i)
        \/ HandlerEnd(i)
        \/ Cancel(i)

Spec == Init /\ [][Next]_vars

SpecHandlers == InitHandlers /\ [][Next]_vars

SpecReadme == InitReadme /\ [][Next]_vars
(***************************************************************************)
(* execute_query on its own: callers await it MaxQueries times.  A call    *)
(* writes its start record and sends its POST; when the answer is there it *)
(* runs to the end of its `async with` blocks, awaits their exits, and     *)
(* returns or raises; its task can be cancelled at either await.  The      *)
(* calls are made one after the other against any answer of                *)
(* ClientResponses, or start and end in between each other against the     *)
(* answers of OverlappingResponses.  log is what the logger has written,   *)
(* in order.                                                               *)
(***************************************************************************)
MaxQueries == 2

ClientVariables == JDict(<< <<"owner", JStr("o")>>, <<"name", JStr("r")>> >>)

\* the calls are made one after the other
ClientEnv ==
    Environment({}, {}, {}, {}, ClientResponses, {1}, Slots, {}, {}, MaxQueries, 1)

\* a success, a GraphQL error and an HTTP error status: the answers that
\* leave a record of the try block, of an except clause, or both none
OverlappingResponses ==
    { JsonResponse(RepositoryBody(FullRepository)),
      JsonResponse(ErrorsBody(JNull, JList(<<GraphQLError("Field not found"),
                                             GraphQLError("Rate limited")>>))),
      StatusResponse(404, "Not Found") }

\* as many calls are pending at a time as there are slots
OverlappingClientEnv ==
    Environment({}, {}, {}, {}, OverlappingResponses, {1}, Slots, {}, {}, MaxQueries,
                NumSlots)

Pending(r) == r.pc \in {"post", "closing"}

\* the store plays no part in execute_query: the server starts on an empty one
InitClient == env \in {ClientEnv, OverlappingClientEnv} /\ InitState /\ now = 0

\* the records as the logger gets them from the call-th call
Written(call, records) == [k \in 1..Len(records) |-> [call |-> call, record |-> records[k]]]

\* execute_query up to the await of session.post
ClientStart(i) ==
    /\ i \in env.slots
    /\ inv[i].pc \in {"idle", "done"}
    /\ \A j \in Slots : j < i => inv[j].pc # "idle"
    /\ calls < env.invocations
    /\ Cardinality({j \in Slots : Pending(inv[j])}) < env.pending
    /\ LET request == Request(token, "query", ClientVariables)
       IN  /\ inv' = [inv EXCEPT ![i] =
                        [IdleInvocation EXCEPT !.pc = "post", !.call = calls + 1,
                                               !.request = request, !.queries = 1,
                                               !.attempts = 1, !.httpCount = 1]]
           /\ log' = log \o Written(calls + 1, <<StartRecord(request)>>)
    /\ calls' = calls + 1
    /\ UNCHANGED <<env, token, store, now, store0, streak, saved>>

\* the answer arrives: execute_query runs to the end of its `async with`
\* blocks, writing the record of the try block, and awaits their exits;
\* query is what it is about to return or raise
ClientAnswer(i) ==
    /\ inv[i].pc = "post"
    /\ \E resp \in env.responses :
         /\ inv' = [inv EXCEPT ![i] =
                      [@ EXCEPT !.pc = "closing", !.resp = resp,
                                !.query = execute_query(resp)]]
         /\ log' = log \o Written(inv[i].call, TryRecord(resp))
    /\ UNCHANGED <<env, token, store, now, calls, store0, streak, saved>>

\* the session is closed: the except clause that catches what the try block
\* raised writes its record, and execute_query returns or raises
ClientClosed(i) ==
    /\ inv[i].pc = "closing"
    /\ inv' = [inv EXCEPT ![i] = [@ EXCEPT !.pc = "done"]]
    /\ log' = log \o Written(inv[i].call, ExceptRecord(inv[i].resp))
    /\ UNCHANGED <<env, token, store, now, calls, store0, streak, saved>>

\* the task is cancelled while execute_query awaits the answer or the exits:
\* no except clause of execute_query catches CancelledError
ClientCancel(i) ==
    /\ Pending(inv[i])
    /\ inv' = [inv EXCEPT ![i] =
                 [@ EXCEPT !.pc = "done", !.query = Raises("CancelledError", ""),
                           !.outcome = Cancelled]]
    /\ UNCHANGED <<env, token, store, now, calls, store0, streak, saved, log>>

NextClient ==
    \E i \in Slots :
        ClientStart(i) \/ ClientAnswer(i) \/ ClientClosed(i) \/ ClientCancel(i)

SpecClient == InitClient /\ [][NextClient]_vars

(***************************************************************************)
(* GitHubAuthMiddleware.on_call_tool on its own, with any server and any   *)
(* next stage: MaxCalls calls, each with one of GateContexts.  The server  *)
(* of a context has the tools of main.py, a tool tagged "local" and a tool *)
(* without tags; the next stage returns or raises.                         *)
(***************************************************************************)
LocalTool == <<"local_tool">>
PlainToolName == <<"plain_tool">>
UnknownTool == <<"unknown_tool">>

GateServer == Registry \cup {Tool(LocalTool, {"local"}), PlainTool(PlainToolName)}

GateContexts ==
    { Context(NamedSource(GetRepositoryInfo), TRUE, GateServer),
      Context(NamedSource(LocalTool), TRUE, GateServer),
      Context(NamedSource(PlainToolName), TRUE, GateServer),
      Context(NamedSource(UnknownTool), TRUE, GateServer),
      Context(TextSource("client"), TRUE, GateServer),
      Context(NamedSource(GetRepositoryInfo), FALSE, {}) }

\* what the next stage returns or raises, the CancelledError of a cancelled
\* task included
NextOutcomes ==
    { Result(JDict(<< <<"success", JBool(TRUE)>> >>)),
      Error("ToolError", "Resource not found"),
      Cancelled }

GateEnv == Environment({}, {}, {}, {}, {}, {}, {}, {}, {}, 0, 0)

InitGate == env = GateEnv /\ InitState

\* on_call_tool up to its raise or to await call_next(context)
GateEnter ==
    /\ Len(log) < MaxCalls
    /\ \E context \in GateContexts :
         log' = Append(log,
                       IF gate_raises(context, token)
                       THEN [op |-> "gate", context |-> context, pc |-> "done",
                             called_next |-> FALSE,
                             next_out |-> NoOutcome,
                             out |-> Error("ToolError", ConfigMessage)]
                       ELSE [op |-> "gate", context |-> context, pc |-> "next",
                             called_next |-> TRUE, next_out |-> NoOutcome,
                             out |-> NoOutcome])
    /\ UNCHANGED <<env, token, store, now, calls, inv, store0, streak, saved>>

\* return await call_next(context): the next stage is over
GateReturn ==
    /\ \E k \in DOMAIN log : \E out \in NextOutcomes :
         /\ log[k].pc = "next"
         /\ log' = [log EXCEPT ![k] = [@ EXCEPT !.pc = "done", !.next_out = out,
                                                !.out = out]]
    /\ UNCHANGED <<env, token, store, now, calls, inv, store0, streak, saved>>

NextGate == GateEnter \/ GateReturn

SpecGate == InitGate /\ [][NextGate]_vars

(***************************************************************************)
(* storage.py on its own: MaxOps calls of save_to_database and             *)
(* load_from_database on the schemas middleware/usage/<key>.               *)
(***************************************************************************)
MaxOps == 3

StoreEnv ==
    Environment({GetRepositoryInfo, GetBranches}, {}, {}, {}, {}, {1}, {},
                Faults \ {"load"}, {}, 0, 0)

InitStore == env = StoreEnv /\ InitState

\* the records saved under a key: its statistics after one successful call,
\* and after a failed call more
StoreRecords(key) ==
    LET one == UpdateStats(NewStats(key), 1, TRUE, "", 1)
    IN  {one, UpdateStats(one, 1, FALSE, "Resource not found", 2)}

StoreSave ==
    /\ Len(log) < MaxOps
    /\ \E key \in env.tools, fault \in env.faults :
         \E data \in StoreRecords(key) :
           LET p == get_database_path(key)
               ts == now + 1
           IN  /\ store' = [store EXCEPT ![p] = save_to_database(store[p], ts, data, fault)]
               /\ now' = ts
               /\ log' = Append(log, [op |-> "save", key |-> key, data |-> data,
                                      fault |-> fault, before |-> store[p], ts |-> ts])
    /\ UNCHANGED <<env, token, calls, inv, store0, streak, saved>>

StoreLoad ==
    /\ Len(log) < MaxOps
    /\ \E key \in env.tools :
         log' = Append(log, [op |-> "load", key |-> key,
                             out |-> load_from_database(store[get_database_path(key)])])
    /\ UNCHANGED <<env, token, store, now, calls, inv, store0, streak, saved>>

NextStore == StoreSave \/ StoreLoad

SpecStore == InitStore /\ [][NextStore]_vars

(***************************************************************************)
(* storage.py on keys with a dot in the name: the calls of SpecStore on    *)
(* the schemas of usage, usage.v1 and usage.v2, with a store that does not *)
(* fail.                                                                   *)
(***************************************************************************)
KeysEnv == Environment(DottedKeys, {}, {}, {}, {}, {1}, {}, {"none"}, {}, 0, 0)

InitKeys == env = KeysEnv /\ InitState

SpecKeys == InitKeys /\ [][NextStore]_vars

(***************************************************************************)
(* _track_usage on its own: MaxTracks tracking steps of one tool, with     *)
(* execution times of 1 and 5 ticks, after the statistics earlier runs     *)
(* have left.                                                              *)
(***************************************************************************)
MaxTracks == 3

StatsEnv ==
    Environment({PriorTool}, {}, {}, {}, {}, {1, 5}, {}, {"none", "load"}, {}, 0, 0)

InitStats == env = StatsEnv /\ InitState

StatsTrack ==
    /\ Len(log) < MaxTracks
    /\ \E tool \in env.tools, e \in env.times, success \in BOOLEAN, fault \in env.faults :
         LET p == get_database_path(tool)
             ts == now + 1
             error == IF success THEN "" ELSE PriorError
             t == track_usage(tool, store[p], store[p], e, success, error, ts, fault)
         IN  /\ store' = [store EXCEPT ![p] = t.file]
             /\ now' = ts
             /\ saved' = [saved EXCEPT ![p] = IF t.status = "ok" THEN @ + 1 ELSE @]
             /\ log' = Append(log, [op |-> "track", tool |-> tool, time |-> e,
                                    success |-> success, status |-> t.status])
    /\ UNCHANGED <<env, token, calls, inv, store0, streak>>

NextStats == StatsTrack

SpecStats == InitStats /\ [][NextStats]_vars

(***************************************************************************)
(* The properties.                                                         *)
(***************************************************************************)
Range(f) == {f[k] : k \in DOMAIN f}

\* no credential is configured: the token is empty or all whitespace
TokenBlank == \A k \in 1..Len(token) : token[k] \in Whitespace

Entered(r) == r.pc # "idle"
Done(r) == r.pc = "done"

\* the invocation went through the usage interceptor and ended in success or failure
Accounted(r) == Done(r) /\ r.usage_entered /\ r.next_out.kind \in {"result", "error"}

\* the calls of the gate made on its own
GateCalls == {k \in DOMAIN log : log[k].op = "gate"}

\* C1: a call of a tool tagged "api" made while the token is empty or
\* whitespace-only ends at the gate with the configuration error: the gate
\* does not call the next stage, so no handler runs and no outbound call is
\* made.
C1_NoCredentialFailsAtGate ==
    \A k \in GateCalls :
        LET tool == tool_name(log[k].context) IN
        (tool \in Tools /\ "api" \in Tags(tool) /\ TokenBlank) =>
            /\ ~log[k].called_next
            /\ log[k].pc = "done"
            /\ log[k].out = Error("ToolError", ConfigMessage)

\* C2 as stated: every invocation that went through the usage interceptor
\* and ended in success or failure raised the stored total_calls of its
\* tool by exactly 1.
C2_Original == \A i \in Slots : Accounted(inv[i]) => inv[i].delta = 1

\* C2, amended: every invocation that went through the usage interceptor and
\* ended in success or failure ran the tracking step once; the stored
\* total_calls of its tool rose by exactly 1 when that step got to its end,
\* and did not rise when the store failed it; an invocation the gate denied,
\* or one that was cancelled, changed no total_calls.
C2_OneUpdatePerTrackedInvocation ==
    \A i \in Slots :
        LET r == inv[i] IN
        /\ Accounted(r) => /\ r.track \in {"ok", "failed"}
                           /\ r.track = "ok" => r.delta = 1
                           /\ r.track = "failed" => r.delta <= 0
        /\ (Done(r) /\ ~Accounted(r)) => (r.track = "none" /\ r.delta = 0)

C2_Witness ==
    \E i, j \in Slots :
        /\ Accounted(inv[i]) /\ inv[i].outcome.kind = "result"
        /\ inv[i].track = "ok" /\ inv[i].delta = 1
        /\ Accounted(inv[j]) /\ inv[j].outcome.kind = "error"
        /\ inv[j].track = "failed" /\ inv[j].delta = 0

\* two invocations of one tool that were inside the usage interceptor at the
\* same time and both returned a result
BothSucceeded(i, j) ==
    /\ i # j
    /\ Accounted(inv[i]) /\ Accounted(inv[j])
    /\ inv[i].tool = inv[j].tool
    /\ j \in inv[i].peers
    /\ inv[i].outcome.kind = "result" /\ inv[j].outcome.kind = "result"

StoredSuccessful(file) == IF file.kind = "json" THEN file.data.successful_calls ELSE 0

Min(a, b) == IF a <= b THEN a ELSE b

\* the stored counts are above those the first of the two started from by n
GrewBy(i, j, n) ==
    LET file == store[RecordPath(inv[i])] IN
    /\ StoredCalls(file) >=
           Min(StoredCalls(inv[i].atStart), StoredCalls(inv[j].atStart)) + n
    /\ StoredSuccessful(file) >=
           Min(StoredSuccessful(inv[i].atStart), StoredSuccessful(inv[j].atStart)) + n

\* how many of the tracking steps of the two got to their end
TrackedOf(i, j) ==
    (IF inv[i].track = "ok" THEN 1 ELSE 0) + (IF inv[j].track = "ok" THEN 1 ELSE 0)

\* C3 as stated: after two concurrent invocations of one tool have both
\* succeeded, the stored total_calls and successful_calls have grown by 2.
C3_Original == \A i, j \in Slots : BothSucceeded(i, j) => GrewBy(i, j, 2)

\* C3, amended: after two concurrent invocations of one tool have both
\* succeeded, the stored total_calls and successful_calls have grown, in
\* every interleaving, by the number of their tracking steps that got to the
\* end: by 2 when the store failed neither, by 1 or by 0 when it failed one
\* or both; a save that failed partway leaves the record unreadable, and
\* then there is no count to read.  No save overwrites another's increment:
\* a record that can be read counts the calls it started with plus every
\* tracking step that got to its end, and a file that is absent has had
\* none.
C3_NoLostUpdate ==
    /\ \A i, j \in Slots :
         (BothSucceeded(i, j) /\ store[RecordPath(inv[i])] # CorruptFile) =>
             GrewBy(i, j, TrackedOf(i, j))
    /\ \A p \in Paths :
         store[p] # CorruptFile => StoredCalls(store[p]) = StoredCalls(store0[p]) + saved[p]

C3_Witness ==
    \E i, j \in Slots :
        /\ BothSucceeded(i, j) /\ inv[i].track = "ok" /\ inv[j].track = "ok"
        /\ inv[i].atStart = inv[j].atStart
        /\ StoredCalls(store[RecordPath(inv[i])]) = StoredCalls(inv[i].atStart) + 2

\* C4: in every invocation the gate's check comes first, the usage
\* interceptor starts only after the gate has permitted, and the handler
\* starts only after the usage interceptor has.
C4_GateThenUsageThenHandler ==
    \A i \in Slots :
        inv[i].events \in { <<>>, <<"auth_deny">>, <<"auth_permit">>,
                            <<"auth_permit", "usage_start">>,
                            <<"auth_permit", "usage_start", "handler">> }

C4_Witness ==
    \E i, j \in Slots :
        /\ Done(inv[i]) /\ inv[i].events = <<"auth_permit", "usage_start", "handler">>
        /\ inv[j].pc = "enter" /\ inv[j].events = <<"auth_permit">>

\* the step is the gate's check of invocation i
GateStep(i) ==
    /\ Len(inv'[i].events) = Len(inv[i].events) + 1
    /\ inv'[i].events[Len(inv'[i].events)] \in {"auth_permit", "auth_deny"}

\* C5: a step of the gate, permitting or denying, changes no file of the
\* store and makes no outbound call; the invocation it denies is over with
\* that step, untracked and untimed.
C5_GateChangesNoRecord ==
    [][\A i \in Slots :
         GateStep(i) =>
             /\ store' = store /\ saved' = saved /\ now' = now
             /\ inv'[i].httpCount = 0
             /\ inv'[i].events[Len(inv'[i].events)] = "auth_deny" =>
                    /\ inv'[i].pc = "done"
                    /\ inv'[i].track = "none" /\ inv'[i].delta = 0
                    /\ ~inv'[i].usage_entered]_vars

C5_Witness ==
    \E i \in Slots :
        /\ Done(inv[i]) /\ inv[i].events = <<"auth_deny">>
        /\ store[RecordPath(inv[i])].kind = "json"
        /\ store = store0

\* C6: every readable record of the store has
\* total_calls = successful_calls + failed_calls.
C6_TotalIsSuccessfulPlusFailed ==
    \A p \in Paths :
        store[p].kind = "json" =>
            store[p].data.total_calls =
                store[p].data.successful_calls + store[p].data.failed_calls

C6_Witness ==
    \E p \in Paths, i \in Slots :
        /\ store[p].kind = "json"
        /\ store[p].data.successful_calls > 0 /\ store[p].data.failed_calls > 0
        /\ Done(inv[i]) /\ inv[i].track = "failed" /\ RecordPath(inv[i]) = p

\* the error-list entries of the failed invocations in s
RECURSIVE AsErrors(_)
AsErrors(s) ==
    IF s = <<>> THEN <<>>
    ELSE <<[timestamp |-> Head(s).timestamp, error |-> Head(s).error]>> \o AsErrors(Tail(s))

LongStreak(p) == Len(streak[p]) >= MaxErrors + 1

ListsLastTen(p) ==
    /\ store[p].kind = "json"
    /\ Len(store[p].data.errors) = MaxErrors
    /\ store[p].data.errors = AsErrors(LastN(streak[p], MaxErrors))

\* C7: after 11 or more consecutive failed invocations of a tool its stored
\* error list holds exactly the 10 most recent failures, oldest first.
C7_ErrorListKeepsLastTen == \A p \in Paths : LongStreak(p) => ListsLastTen(p)

\* C8: when the tracking step of an invocation was failed by the store, the
\* caller still gets exactly what the handler returned or raised.
C8_TrackingFailureKeepsOutcome ==
    \A i \in Slots :
        (Done(inv[i]) /\ inv[i].track = "failed") =>
            /\ inv[i].outcome = inv[i].next_out
            /\ inv[i].outcome.kind \in {"result", "error"}
            /\ inv[i].outcome.cls # "TrackingError"

C8_Witness ==
    \E i, j \in Slots :
        /\ Done(inv[i]) /\ inv[i].track = "failed" /\ inv[i].outcome.kind = "result"
        /\ inv[i].outcome.val = RepositoryInfo(inv[i].args, FullRepositoryData).val
        /\ Done(inv[j]) /\ inv[j].track = "failed"
        /\ inv[j].outcome = Error("ToolError", "Resource not found")
        /\ store[RecordPath(inv[j])] = CorruptFile

\* C9 as stated: the usage interceptor hands on the result or the error of
\* the next stage as it got it, and by then the update of the record for the
\* invocation has been performed: the record holds the call.
C9_Original ==
    \A i \in Slots :
        Accounted(inv[i]) =>
            /\ inv[i].outcome = inv[i].next_out
            /\ inv[i].track = "ok"
            /\ inv[i].delta = 1

\* C9, amended: the usage interceptor hands on the result or the error of
\* the next stage as it got it, and by then it has run the tracking step of
\* the invocation once; the record holds the call when that step got to its
\* end, and when the store failed the step the update has not been
\* performed: the record is as it was, or unreadable.
C9_OutcomeUnchangedAfterTracking ==
    \A i \in Slots :
        Accounted(inv[i]) =>
            /\ inv[i].outcome = inv[i].next_out
            /\ inv[i].track \in {"ok", "failed"}
            /\ inv[i].track = "ok" => inv[i].delta = 1
            /\ inv[i].track = "failed" => inv[i].delta <= 0

C9_Witness ==
    \E i, j \in Slots :
        /\ Accounted(inv[i]) /\ inv[i].track = "ok"
        /\ inv[i].tool = GetRepositoryInfo
        /\ inv[i].outcome = Result(RepositoryInfo(inv[i].args, FullRepositoryData).val)
        /\ Accounted(inv[j]) /\ inv[j].outcome = Error("ToolError", "Resource not found")
        /\ inv[j].track = "failed" /\ inv[j].delta = 0

\* C10: one call of execute_query makes at most one POST, whatever the
\* answer: an invocation has made as many POSTs as calls of execute_query,
\* and no answer is followed by a second POST of the same call.
C10_OnePostPerCall ==
    \A i \in Slots :
        /\ inv[i].attempts <= 1
        /\ inv[i].httpCount = inv[i].queries
        /\ inv[i].pc = "http" => inv[i].attempts = 1

C10_Witness ==
    \E i \in Slots :
        /\ Done(inv[i]) /\ inv[i].tool = GetDirectoryContents
        /\ inv[i].queries = 2 /\ inv[i].attempts = 1 /\ inv[i].httpCount = 2
        /\ inv[i].outcome = Error("ToolError", "Network error: Cannot connect to host")

\* C11 as stated: once a call of execute_query has raised in an invocation,
\* the handler makes no further outbound call and the invocation ends in
\* failure; so for the default-branch lookup, the main query and every
\* round of the loop of get_readme.
C11_Original ==
    \A i \in Slots :
        inv[i].raised =>
            /\ inv[i].httpCount = inv[i].atRaise
            /\ inv[i].queries = inv[i].atRaise
            /\ Done(inv[i]) => inv[i].outcome.kind = "error"

\* C11, amended: once a call of execute_query has raised in an invocation,
\* the handler makes no further outbound call: it is at its await of
\* ctx.error or over; the invocation ends without a result, in failure or,
\* when its task is cancelled at the await of ctx.error, in that
\* cancellation.  So for the default-branch lookup, the main query and every
\* round of the loop of get_readme.
C11_FailedCallEndsInvocation ==
    \A i \in Slots :
        inv[i].raised =>
            /\ inv[i].httpCount = inv[i].atRaise
            /\ inv[i].queries = inv[i].atRaise
            /\ inv[i].pc \in {"notify", "done"}
            /\ inv[i].pc = "notify" =>
                   /\ inv[i].pending.kind = "error"
                   /\ inv[i].notes[Len(inv[i].notes)].level = "error"
            /\ Done(inv[i]) => inv[i].outcome.kind \in {"error", "cancelled"}
            /\ (Done(inv[i]) /\ inv[i].outcome.kind = "cancelled") =>
                   inv[i].notes[Len(inv[i].notes)].level = "error"

C11_Witness ==
    \E i \in Slots :
        /\ inv[i].tool = GetReadme /\ inv[i].args.branch = JNull
        /\ inv[i].raised /\ inv[i].atRaise = 3 /\ inv[i].stage = "readme" /\ inv[i].idx = 2
        /\ Done(inv[i])
        /\ inv[i].outcome = Error("ToolError", "Network error: Cannot connect to host")

\* the calls of execute_query made on its own that are over
EndedCalls == {i \in Slots : inv[i].pc = "done" /\ inv[i].query # NoQuery}

\* those of them that ran to their return or raise, their task not cancelled
ClientCalls == {i \in EndedCalls : inv[i].outcome # Cancelled}

\* the records the logger has got from a call, in order
RECURSIVE RecordsOf(_, _)
RecordsOf(call, written) ==
    IF written = <<>> THEN <<>>
    ELSE (IF Head(written).call = call THEN <<Head(written).record>> ELSE <<>>)
             \o RecordsOf(call, Tail(written))

\* the body has an entry errors
HasErrors(resp) == resp.t = "json" /\ resp.body.t = "dict" /\ HasKey(resp.body, "errors")

\* the entry errors of the body is a list of errors: of objects whose
\* message, when they have one, is a string
HasErrorsList(resp) ==
    /\ HasErrors(resp)
    /\ LET errors == Lookup(resp.body, "errors") IN
       /\ errors.t = "list"
       /\ \A k \in DOMAIN errors.items :
            /\ errors.items[k].t = "dict"
            /\ HasKey(errors.items[k], "message") =>
                   Lookup(errors.items[k], "message").t = "str"

\* the message an entry of an errors list contributes
MessageOf(e) == IF HasKey(e, "message") THEN Lookup(e, "message").s ELSE "Unknown error"

\* the first n messages of an errors list, joined by "; " from the left
RECURSIVE JoinedUpTo(_, _)
JoinedUpTo(errors, n) ==
    IF n = 0 THEN ""
    ELSE IF n = 1 THEN MessageOf(errors[1])
    ELSE JoinedUpTo(errors, n - 1) \o "; " \o MessageOf(errors[n])

\* C12: for an HTTP 200 answer whose body has an errors list, execute_query
\* raises GitHubAPIError, returns no data, and the message is exactly the
\* messages of the listed errors, in order, joined by "; " ("Unknown error"
\* standing for an entry without a message); there is no prefix of a later
\* except clause.
C12_GraphQLErrorsJoined ==
    \A i \in ClientCalls :
        LET resp == inv[i].resp
            out == inv[i].query
        IN  HasErrorsList(resp) =>
                /\ out.kind = "raises"
                /\ out.cls = "GitHubAPIError"
                /\ out.data = JNull
                /\ LET errors == Lookup(resp.body, "errors").items
                   IN  out.msg = JoinedUpTo(errors, Len(errors))

C12_Witness ==
    \E i, j \in ClientCalls :
        /\ HasErrorsList(inv[i].resp)
        /\ Len(Lookup(inv[i].resp.body, "errors").items) = 2
        /\ inv[i].query.msg = "Field not found; Rate limited"
        /\ HasErrorsList(inv[j].resp)
        /\ Lookup(inv[j].resp.body, "errors") = JList(<<GraphQLError("field X not found")>>)
        /\ inv[j].query = Raises("GitHubAPIError", "field X not found")

\* the class of a transport-level failure, "" for an answer that is none; an
\* answer whose content type is not JSON is to the code a status error, of
\* the status 200; an expired timeout is a connectivity failure
TransportClass(resp) ==
    IF resp.t = "status"
    THEN IF resp.status \in {401, 403, 404} THEN StatusText(resp.status) ELSE "other"
    ELSE IF resp.t = "content_type" THEN "other"
    ELSE IF resp.t \in {"client_error", "timeout"} THEN "network"
    ELSE ""

ClassMessage(resp) ==
    CASE TransportClass(resp) = "401" -> "Invalid or expired GitHub token"
      [] TransportClass(resp) = "403" -> "Rate limit exceeded or forbidden resource"
      [] TransportClass(resp) = "404" -> "Resource not found"
      [] TransportClass(resp) = "other" ->
             "API request failed: " \o StatusText(resp.status) \o " " \o resp.reason
      [] OTHER -> "Network error: " \o resp.detail

\* what str(e) of a connectivity failure or of an expired timeout can be
ConnectivityTexts == {"", "Cannot connect to host", "Connection timeout", "Timeout"}

NetworkMessages == {"Network error: " \o d : d \in ConnectivityTexts}

\* C13: an HTTP error status (401, 403, 404, any other) and a connectivity
\* failure, an expired timeout included, each make execute_query raise
\* GitHubAPIError with the message of their own class, one of five;
\* failures of two different classes never have the same message, and an
\* HTTP status error never has a "Network error" message.
C13_TransportFailuresClassified ==
    /\ \A i \in ClientCalls :
         LET resp == inv[i].resp
             out == inv[i].query
         IN  TransportClass(resp) # "" =>
                 /\ out.kind = "raises" /\ out.cls = "GitHubAPIError"
                 /\ out.msg = ClassMessage(resp)
                 /\ resp.t \in {"status", "content_type"} => out.msg \notin NetworkMessages
                 /\ resp.t \in {"client_error", "timeout"} => out.msg \in NetworkMessages
    /\ \A i, j \in ClientCalls :
         ( /\ TransportClass(inv[i].resp) # "" /\ TransportClass(inv[j].resp) # ""
           /\ TransportClass(inv[i].resp) # TransportClass(inv[j].resp) )
             => inv[i].query.msg # inv[j].query.msg

\* C14 as stated: when the request timeout expires, execute_query raises
\* GitHubAPIError with a message of the connectivity form, "Network error: "
\* followed by the text of the failure.
C14_TimeoutIsConnectivityError ==
    \A i \in ClientCalls :
        inv[i].resp.t = "timeout" =>
            /\ inv[i].query.kind = "raises"
            /\ inv[i].query.cls = "GitHubAPIError"
            /\ inv[i].query.msg \in NetworkMessages

\* C15 as stated: a call of execute_query that does not return raises
\* GitHubAPIError and nothing else.
C15_Original ==
    \A i \in EndedCalls :
        /\ inv[i].query.kind \in {"returns", "raises"}
        /\ inv[i].query.kind = "raises" => inv[i].query.cls = "GitHubAPIError"

\* C15, amended: whatever the answer, a call of execute_query that does not
\* return raises GitHubAPIError, and the one other thing that escapes it is
\* the CancelledError of a task cancelled while the call awaits the answer
\* or the closing of its session; a call that is not cancelled does not
\* return for an HTTP error status, a connectivity failure, an expired
\* timeout, a body that is not JSON or not a JSON object, or an errors
\* entry, whatever it holds.
C15_OnlyGitHubAPIErrorEscapes ==
    \A i \in EndedCalls :
        LET resp == inv[i].resp
            out == inv[i].query
        IN  /\ out.kind \in {"returns", "raises"}
            /\ out.kind = "raises" => out.cls \in {"GitHubAPIError", "CancelledError"}
            /\ out.cls = "CancelledError" <=> inv[i].outcome = Cancelled
            /\ (i \in ClientCalls
                   /\ (resp.t # "json" \/ resp.body.t # "dict" \/ HasErrors(resp))) =>
                   out = Raises("GitHubAPIError", out.msg)

C15_Witness ==
    \E i \in ClientCalls, j \in EndedCalls :
        /\ inv[i].resp = JsonResponse(EmptyList)
        /\ inv[i].query =
               Raises("GitHubAPIError", "Unexpected error: 'list' object has no attribute 'get'")
        /\ inv[j].resp.t = "timeout"
        /\ inv[j].outcome = Cancelled
        /\ inv[j].query = Raises("CancelledError", "")

\* C16: execute_query returns exactly when the answer is an HTTP 200 whose
\* body is a JSON object without an errors entry, and it returns the data
\* entry of the body and nothing else ({} for a body without one); with an
\* errors entry, an empty one or one next to data included, it returns
\* nothing.
C16_ReturnsDataOnlyWithoutErrors ==
    \A i \in ClientCalls :
        LET resp == inv[i].resp
            out == inv[i].query
        IN  /\ out.kind = "returns" <=>
                   ( /\ resp.t = "json" /\ resp.status = 200
                     /\ resp.body.t = "dict" /\ ~HasErrors(resp) )
            /\ out.kind = "returns" =>
                   out = Returns(IF HasKey(resp.body, "data") THEN Lookup(resp.body, "data")
                                 ELSE EmptyDict)
            /\ HasErrors(resp) => (out.kind = "raises" /\ out.data = JNull)

C16_Witness ==
    \E i, j \in ClientCalls :
        /\ inv[i].resp = JsonResponse(RepositoryBody(FullRepository))
        /\ inv[i].query = Returns(FullRepositoryData)
        /\ inv[j].resp = JsonResponse(ErrorsBody(JNull, EmptyList))
        /\ inv[j].query.kind = "raises"

\* the calls of load_from_database and of save_to_database made on their own
Loads == {k \in DOMAIN log : log[k].op = "load"}
Saves == {k \in DOMAIN log : log[k].op = "save"}

\* the save to the key of load j that is the last one before it
LastSaveBefore(i, j) ==
    /\ i \in Saves /\ i < j /\ log[i].key = log[j].key
    /\ \A m \in Saves : (m < j /\ log[m].key = log[j].key) => m <= i

\* C17 as stated: a load that follows a save of its key, whether the save got
\* to its end or failed partway, does not fail and returns either the
\* complete value the file held before that save or the complete new value.
C17_NoPartialWriteVisible ==
    \A j \in Loads : \A i \in Saves :
        LastSaveBefore(i, j) =>
            /\ log[j].out.kind # "raises"
            /\ \/ log[j].out = load_from_database(log[i].before)
               \/ log[j].out.kind = "loaded" /\ log[j].out.data = log[i].data

\* C18: for every key, a load that follows a save of its key that got to its
\* end, with no save to the key in between, returns the wrapper of that
\* save: its data field is the record saved, its timestamp the one of the
\* save; so a later save replaces an earlier record whole.
C18_SaveLoadRoundTrip ==
    \A j \in Loads : \A i \in Saves :
        (LastSaveBefore(i, j) /\ log[i].fault = "none") =>
            /\ log[j].out.kind = "loaded"
            /\ log[j].out.data = log[i].data
            /\ log[j].out.timestamp = log[i].ts

\* the keys nothing was ever saved under: no file at start-up, no save since
NeverSaved(key, j) ==
    /\ store0[get_database_path(key)] = NoFile
    /\ \A i \in Saves : i < j => log[i].key # key

\* C19: a load of a key nothing was ever saved under returns the empty result,
\* however often it is repeated, and the store still has no file for the key.
C19_LoadOfUnsavedKeyIsEmpty ==
    /\ \A j \in Loads :
         NeverSaved(log[j].key, j) => log[j].out = [kind |-> "empty"]
    /\ \A key \in env.tools :
         NeverSaved(key, Len(log) + 1) => store[get_database_path(key)] = NoFile

\* the readable records of the store
Records == {store[p].data : p \in {q \in Paths : store[q].kind = "json"}}

\* average_execution_time * total_calls, in doubles
AverageTimesCalls(stats) == Multiply(stats.average_execution_time, stats.total_calls)

\* two doubles that are equal or next to each other
Near(x, y) == x = y \/ x = FloatSucc(y) \/ y = FloatSucc(x)

\* C20 as stated: in every stored record average_execution_time multiplied
\* by total_calls equals total_execution_time, and total_calls is above 0.
C20_AverageTimesCallsIsTotal ==
    \A stats \in Records :
        /\ stats.total_calls > 0
        /\ AverageTimesCalls(stats) = FromInt(stats.total_execution_time)

\* C20, amended: in every stored record total_calls is above 0, the average
\* is the double nearest to total_execution_time / total_calls, and the
\* average multiplied by total_calls is total_execution_time or a double next
\* to it: equal within floating-point tolerance, not always equal.
C20_AverageWithinTolerance ==
    \A stats \in Records :
        /\ stats.total_calls > 0
        /\ stats.average_execution_time =
               Divide(stats.total_execution_time, stats.total_calls)
        /\ Near(AverageTimesCalls(stats), FromInt(stats.total_execution_time))

C20_Witness ==
    /\ Len(log) = 1 /\ log[1].status = "ok" /\ log[1].time = 5
    /\ \E stats \in Records :
         /\ stats.total_calls = 11 /\ stats.total_execution_time = 15
         /\ AverageTimesCalls(stats) # FromInt(15)
         /\ FloatSucc(AverageTimesCalls(stats)) = FromInt(15)

\* C21: every invocation in which a call of execute_query raised, the
\* default-branch lookup included, ends for the caller in a ToolError whose
\* message is the message of the GitHubAPIError, unchanged.
C21_ClientFailureSurfacesAsToolError ==
    \A i \in Slots :
        (Done(inv[i]) /\ inv[i].raised /\ inv[i].outcome # Cancelled) =>
            inv[i].outcome = Error("ToolError", inv[i].raisedMsg)

\* the tool the server of the context has under the name of the call
Looked(context) == get_tool(context.server, tool_name(context))

\* the server has the tool the call is for, and the tool is not tagged "api"
Untagged(context) ==
    /\ context.has_server
    /\ Looked(context) # NoTool
    /\ "api" \notin Looked(context).tags

\* C22: a call of a tool without the "api" tag is never denied by the gate,
\* whatever the token (absent, all whitespace, or set): the gate calls the
\* next stage and hands on what that stage returns or raises.
C22_UntaggedToolAlwaysPermitted ==
    \A k \in GateCalls :
        Untagged(log[k].context) =>
            /\ log[k].called_next
            /\ log[k].pc = "done" =>
                   /\ log[k].next_out \in NextOutcomes
                   /\ log[k].out = log[k].next_out

C22_Witness ==
    \E j, k \in GateCalls :
        /\ TokenBlank
        /\ tool_name(log[j].context) = LocalTool
        /\ log[j].pc = "done" /\ log[j].called_next
        /\ log[j].out.kind = "result"
        /\ tool_name(log[k].context) = GetRepositoryInfo
        /\ log[k].pc = "done" /\ ~log[k].called_next
        /\ log[k].out = Error("ToolError", ConfigMessage)

\* C23: what a call of execute_query raises and the records it writes are
\* the same for every value of the token, given the same answer of the
\* remote endpoint; for HTTP 404 the message is the fixed text "Resource not
\* found", which holds neither the URL of the endpoint nor the token.
C23_TokenNeverInMessagesOrRecords ==
    \A i \in ClientCalls :
        LET resp == inv[i].resp
            out == inv[i].query
            records == RecordsOf(inv[i].call, log)
        IN  /\ \A api_key \in Tokens :
                 /\ records = LogRecords(Request(api_key, "query", ClientVariables), resp)
                 /\ out = execute_query(resp)
            /\ (resp.t = "status" /\ resp.status = 404) =>
                 /\ out = Raises("GitHubAPIError", "Resource not found")
                 /\ records[2].message = "GitHub API error: Resource not found"

C23_Witness ==
    \E i, j \in ClientCalls :
        /\ is_configured(token)
        /\ inv[i].resp = StatusResponse(404, "Not Found")
        /\ inv[i].query.msg = "Resource not found"
        /\ Len(RecordsOf(inv[i].call, log)) = 2
        /\ RecordsOf(inv[i].call, log)[2].fields.status_code = 404
        /\ HasErrorsList(inv[j].resp)
        /\ RecordsOf(inv[j].call, log)[2].message =
               "GitHub GraphQL error: Field not found; Unknown error"

\* the request_ids an invocation has carried so far
RequestIds(r) == ({r.gate_id, r.usage_id, r.handler_id} \cup r.query_ids) \ {NoId}

\* C24: an invocation has one correlation identifier: the request_id of the
\* gate's records, of the usage interceptor's records and of every call of
\* execute_query made during the invocation are the same.
C24_OneCorrelationIdentifier ==
    \A i \in Slots : Cardinality(RequestIds(inv[i])) <= 1

\* C25: a file holds no record before the first recorded invocation of its
\* tool: the step that creates the record is the tracking step of such an
\* invocation and leaves total_calls at 1; a record, once there, is there
\* after every step, and its total_calls, successful_calls and failed_calls
\* never decrease.
C25_RecordsPersistAndCountsGrow ==
    [][\A p \in Paths :
         /\ (store[p].kind = "absent" /\ store'[p].kind = "json") =>
                /\ store'[p].data.total_calls = 1
                /\ \E i \in Slots :
                     /\ ~Done(inv[i]) /\ Accounted(inv'[i])
                     /\ RecordPath(inv'[i]) = p
         /\ store[p].kind = "json" =>
                /\ store'[p].kind = "json"
                /\ store'[p].data.total_calls >= store[p].data.total_calls
                /\ store'[p].data.successful_calls >= store[p].data.successful_calls
                /\ store'[p].data.failed_calls >= store[p].data.failed_calls]_vars

\* the step ends invocation i, which went through the usage interceptor, in
\* success or failure
Completes(i) == ~Done(inv[i]) /\ Accounted(inv'[i])

\* the record file of every tool but this one is as it was
OthersUnchanged(tool) ==
    \A t \in Tools \ {tool} : store'[get_database_path(t)] = store[get_database_path(t)]

\* C26: the store changes only in the step that completes an invocation;
\* that step changes the record stored for no other tool, and when its
\* tracking step got to the end it raises the total_calls of the record
\* stored for its own tool by exactly 1.
C26_OwnRecordGrowsByOne ==
    [][/\ store' # store => \E i \in Slots : Completes(i)
       /\ \A i \in Slots :
            (Completes(i) /\ inv'[i].track = "ok") =>
                LET p == get_database_path(inv'[i].tool) IN
                /\ OthersUnchanged(inv'[i].tool)
                /\ store'[p].kind = "json"
                /\ store'[p].data.tool_name = inv'[i].tool
                /\ StoredCalls(store'[p]) = StoredCalls(store[p]) + 1]_vars

\* C27: two different keys have two different files, and a save under one
\* key does not change what a load of another key returns: two loads of a
\* key with no save under that key in between return the same, whatever was
\* saved under other keys in between; so also for names with a dot.
C27_DistinctKeysDistinctFiles ==
    /\ \A i, j \in DOMAIN log :
         log[i].key # log[j].key =>
             get_database_path(log[i].key) # get_database_path(log[j].key)
    /\ \A i, j \in Loads :
         ( /\ i < j /\ log[i].key = log[j].key
           /\ \A s \in Saves : (i < s /\ s < j) => log[s].key # log[j].key )
             => log[j].out = log[i].out

\* C28: when the stage the usage interceptor awaits has stopped, by a return,
\* by a raised error or by the cancellation of the task, the tracking step
\* of the invocation has run.
C28_TrackedHoweverNextStageStops ==
    \A i \in Slots :
        (Done(inv[i]) /\ inv[i].usage_entered) => inv[i].track \in {"ok", "failed"}

\* C29: every stored record has at most 10 error entries, and as many as
\* min(10, failed_calls): each failed invocation, its message empty or not,
\* has added one entry until the cap drops the oldest.
C29_ErrorEntriesMatchFailedCalls ==
    \A stats \in Records :
        /\ Len(stats.errors) <= MaxErrors
        /\ Len(stats.errors) = Min(MaxErrors, stats.failed_calls)

\* the object the answer q of execute_query has for the expression
ObjectOf(q) ==
    Then(QueryResult(q),
         LAMBDA result :
             Then(Get(result, "repository", JNull),
                  LAMBDA repository : Get(repository, "object", JNull)))

\* the answer says that the name is a file on the branch: the object is one
\* the selection `... on Blob { text }` applies to
IsBlob(a) ==
    LET obj == ObjectOf(a.q)
    IN  obj.kind = "returns" /\ obj.val.t = "dict" /\ HasKey(obj.val, "text")

\* C30: get_readme asks for the names of readme_files in their order, one
\* outbound call at a time; it returns the first name that is a file on the
\* branch and asks for no later name; it fails with "No README file found"
\* only when none of the six names is a file.
C30_FirstExistingReadmeReturned ==
    \A i \in Slots :
        LET r == inv[i]
            n == Len(r.asked)
        IN  r.tool = GetReadme =>
            /\ n <= Len(readme_files)
            /\ \A k \in 1..n : r.asked[k].name = readme_files[k]
            /\ \A k \in 1..(n - 1) : ~IsBlob(r.asked[k])
            /\ (Done(r) /\ r.outcome.kind = "result") =>
                   /\ n >= 1 /\ IsBlob(r.asked[n])
                   /\ Lookup(r.outcome.val, "filename") = JStr(r.asked[n].name)
            /\ (Done(r) /\ r.outcome # Cancelled /\ n >= 1 /\ IsBlob(r.asked[n])) =>
                   r.outcome.kind = "result"
            /\ (Done(r) /\ r.outcome.msg
                               = FailedPrefix(GetReadme) \o NoReadmeFound(r.args, r.branch)) =>
                   /\ n = Len(readme_files)
                   /\ \A k \in 1..n : ~IsBlob(r.asked[k])

====
